---- MODULE Spec2Model ----
(***************************************************************************)
(* A model of the HTTP/1.1 connection reactor of http-rust.                *)
(*                                                                         *)
(* Bytes are modelled as one-character strings; the control bytes are the  *)
(* tokens "CR", "LF" and "HT", and "xFF" stands for a byte that is not     *)
(* valid UTF-8.  Offsets into buffers are 0-based as in the Rust source:   *)
(* Slice(s, a, b) is s[a..b].                                              *)
(***************************************************************************)
EXTENDS Integers, Sequences, FiniteSets, TLC

\* ------------------------------------------------------------------------
\* State
\* ------------------------------------------------------------------------

VARIABLES
    input,      \* request assembly alone: the bytes a peer sends to one connection
    conn,       \* request assembly alone: that connection
    fed,        \* request assembly alone: how many bytes of input were delivered
    last,       \* request assembly alone: the outcome of the last read_outcome call
    cfg,        \* the environment: what peers send and where, how time may advance
    routes,     \* Router.routes: port -> the routes registered for it, in order
    conns,      \* Router.conns: client handle -> Conn
    sessions,   \* Router.sessions: session id -> Session
    minted,     \* how many session identifiers were generated so far
    now,        \* the clock (Instant::now), in seconds
    ticks,      \* how many times the clock advanced
    socks,      \* the kernel's open client sockets: handle -> what the peer did
    backlog,    \* listening handle -> connections waiting to be accepted
    connects,   \* how many connections peers opened so far
    interest,   \* the readiness facility: registered client handle -> interest set
    pc,         \* where handle_connections is: "wait" or "dispatch"
    ready,      \* the events of this cycle not yet processed: handle -> flags
    ghost,      \* per open client handle: a record of what happened on its connection
    call,       \* one function taken alone: its arguments
    ret         \* one function taken alone: <<>> before the call, <<result>> after

connVars == <<input, conn, fed, last>>
reactorVars ==
    <<cfg, routes, conns, sessions, minted, now, ticks, socks, backlog, connects,
      interest, pc, ready, ghost>>
fnVars == <<call, ret>>
vars == <<connVars, fnVars, reactorVars>>

\* ------------------------------------------------------------------------
\* Byte-string helpers (the std operations the source relies on)
\* ------------------------------------------------------------------------

\* s[a..b] of Rust: the bytes at 0-based offsets a, ..., b-1
Slice(s, a, b) == SubSeq(s, a + 1, b)

\* s[a..]
SliceFrom(s, a) == SubSeq(s, a + 1, Len(s))

SetMin(S) == CHOOSE x \in S : \A y \in S : x <= y

\* s.windows(len(pat)).position(|w| w == pat): <<>> or <<0-based offset>>
Position(s, pat) ==
    LET hits == {i \in 0..(Len(s) - Len(pat)) : Slice(s, i, i + Len(pat)) = pat}
    IN  IF hits = {} THEN <<>> ELSE <<SetMin(hits)>>

\* str::split(pat): the pieces between the occurrences of pat (never empty list)
RECURSIVE Split(_, _)
Split(s, pat) ==
    LET p == Position(s, pat)
    IN  IF p = <<>> THEN <<s>>
        ELSE <<Slice(s, 0, p[1])>> \o Split(SliceFrom(s, p[1] + Len(pat)), pat)

\* str::split_once(ch): <<>> or <<before, after>>
SplitOnce(s, ch) ==
    LET p == Position(s, <<ch>>)
    IN  IF p = <<>> THEN <<>>
        ELSE <<Slice(s, 0, p[1]), SliceFrom(s, p[1] + 1)>>

WhiteSpace == {" ", "HT", "CR", "LF"}

\* str::trim_start / trim_end / trim
RECURSIVE TrimStart(_)
TrimStart(s) ==
    IF s # <<>> /\ Head(s) \in WhiteSpace THEN TrimStart(Tail(s)) ELSE s

RECURSIVE TrimEnd(_)
TrimEnd(s) ==
    IF s # <<>> /\ s[Len(s)] \in WhiteSpace
    THEN TrimEnd(SubSeq(s, 1, Len(s) - 1)) ELSE s

Trim(s) == TrimEnd(TrimStart(s))

UpperAlpha ==
    <<"A","B","C","D","E","F","G","H","I","J","K","L","M",
      "N","O","P","Q","R","S","T","U","V","W","X","Y","Z">>

LowerAlpha ==
    <<"a","b","c","d","e","f","g","h","i","j","k","l","m",
      "n","o","p","q","r","s","t","u","v","w","x","y","z">>

\* u8::to_ascii_lowercase
LowerByte(b) ==
    LET hits == {i \in 1..Len(UpperAlpha) : UpperAlpha[i] = b}
    IN  IF hits = {} THEN b ELSE LowerAlpha[CHOOSE i \in hits : TRUE]

\* str::to_ascii_lowercase
ToAsciiLowercase(s) == [i \in 1..Len(s) |-> LowerByte(s[i])]

\* str::eq_ignore_ascii_case
EqIgnoreAsciiCase(a, b) == ToAsciiLowercase(a) = ToAsciiLowercase(b)

\* std::str::from_utf8(..).is_ok()
Utf8Valid(bytes) == \A i \in 1..Len(bytes) : bytes[i] # "xFF"

HexDigits ==
    <<"0","1","2","3","4","5","6","7","8","9","a","b","c","d","e","f">>

\* char::to_digit(radix): <<>> or <<value>>
ToDigit(b, radix) ==
    LET hits == {i \in 1..radix : HexDigits[i] = LowerByte(b)}
    IN  IF hits = {} THEN <<>> ELSE <<(CHOOSE i \in hits : TRUE) - 1>>

\* The width of usize in the model, in bits (the build's targets have 64):
\* every usize of the source is a number from 0 to UsizeMax
UsizeBits == 16
UsizeMax == 2^UsizeBits - 1

\* a + b on usize.  The build profile decides what an overflow does: with
\* overflow checks (dev profile) the addition panics, without them (release
\* profile) it wraps around
AddUsize(a, b) ==
    IF a + b <= UsizeMax THEN [panic |-> FALSE, value |-> a + b]
    ELSE IF cfg.overflow_checks THEN [panic |-> TRUE, value |-> 0]
    ELSE [panic |-> FALSE, value |-> (a + b) % (UsizeMax + 1)]

\* Whether s[a..b] is a range of s; indexing with any other range panics
RangeOk(s, a, b) == a <= b /\ b <= Len(s)

\* The digit loop of from_str_radix: a value above UsizeMax is an error
RECURSIVE DigitsValue(_, _, _)
DigitsValue(s, radix, acc) ==
    IF s = <<>> THEN <<acc>>
    ELSE LET d == ToDigit(Head(s), radix)
         IN  IF d = <<>> THEN <<>>
             ELSE IF acc * radix + d[1] > UsizeMax THEN <<>>
             ELSE DigitsValue(Tail(s), radix, acc * radix + d[1])

\* usize::from_str_radix(s, radix) (and str::parse::<usize> for radix 10):
\* an optional leading '+', then at least one digit.  <<>> is Err, <<n>> is Ok(n)
ParseUsize(s, radix) ==
    LET digits == IF s # <<>> /\ Head(s) = "+" THEN Tail(s) ELSE s
    IN  IF digits = <<>> THEN <<>> ELSE DigitsValue(digits, radix, 0)

CRLF == <<"CR", "LF">>

\* ------------------------------------------------------------------------
\* https.rs: status codes
\* ------------------------------------------------------------------------

\* StatusCode::code
StatusCodeOf(status) ==
    CASE status = "Ok" -> 200
      [] status = "Created" -> 201
      [] status = "NoContent" -> 204
      [] status = "BadRequest" -> 400
      [] status = "Forbidden" -> 403
      [] status = "NotFound" -> 404
      [] status = "MethodNotAllowed" -> 405
      [] status = "PayloadTooLarge" -> 413
      [] status = "InternalServerError" -> 500
      [] status = "VersionNotSupported" -> 505

\* ------------------------------------------------------------------------
\* conn.rs: the per-connection request assembly
\* ------------------------------------------------------------------------

\* ConnState values
StReadingHeaders == [tag |-> "ReadingHeaders", header_end |-> 0, content_length |-> 0]
StReadingBodyContentLength(header_end, content_length) ==
    [tag |-> "ReadingBodyContentLength", header_end |-> header_end,
     content_length |-> content_length]
StReadingBodyChunked(header_end) ==
    [tag |-> "ReadingBodyChunked", header_end |-> header_end, content_length |-> 0]
StResponding == [tag |-> "Responding", header_end |-> 0, content_length |-> 0]

\* ReadOutcome values
OutPending ==
    [kind |-> "Pending", header_bytes |-> <<>>, body_bytes |-> <<>>,
     local_port |-> 0, status |-> "", reason |-> ""]
OutReady(pending) ==
    [kind |-> "Ready", header_bytes |-> pending.header_bytes,
     body_bytes |-> pending.body_bytes, local_port |-> pending.local_port,
     status |-> "", reason |-> ""]
OutError(status, reason) ==
    [kind |-> "Error", header_bytes |-> <<>>, body_bytes |-> <<>>,
     local_port |-> 0, status |-> status, reason |-> reason]

\* No ReadOutcome: the call panicked, which ends the server process
OutPanic(reason) ==
    [kind |-> "Panic", header_bytes |-> <<>>, body_bytes |-> <<>>,
     local_port |-> 0, status |-> "", reason |-> reason]

\* Result<BodyFraming, String>
FramingErr(reason) == [ok |-> FALSE, framing |-> "", len |-> 0, reason |-> reason]
FramingContentLength(n) ==
    [ok |-> TRUE, framing |-> "ContentLength", len |-> n, reason |-> ""]
FramingChunked == [ok |-> TRUE, framing |-> "Chunked", len |-> 0, reason |-> ""]

H_ContentLength ==
    <<"C","o","n","t","e","n","t","-","L","e","n","g","t","h">>
H_TransferEncoding ==
    <<"T","r","a","n","s","f","e","r","-","E","n","c","o","d","i","n","g">>
W_chunked == <<"c","h","u","n","k","e","d">>

\* A faulty variant of the framing decision: Transfer-Encoding wins over a
\* Content-Length that is also present, and any coding counts as chunked
FramingDecision_PrefersChunked(content_length, transfer_encoding) ==
    IF transfer_encoding # <<>> THEN FramingChunked
    ELSE FramingContentLength(IF content_length = <<>> THEN 0 ELSE content_length[1])

\* The tail of Conn::parse_body_framing, after the header lines were scanned
FramingDecision(content_length, transfer_encoding) ==
    IF transfer_encoding # <<>>
    THEN IF content_length # <<>>
         THEN FramingErr("Transfer-Encoding and Content-Length cannot be combined")
         ELSE LET parts == Split(transfer_encoding[1], ",")
                  codings == SelectSeq([i \in 1..Len(parts) |-> Trim(parts[i])],
                                       LAMBDA v : v # <<>>)
              IN  IF codings = <<>>
                  THEN FramingErr("Transfer-Encoding header cannot be empty")
                  ELSE IF \E i \in 1..Len(codings) : codings[i] # W_chunked
                  THEN FramingErr("only chunked Transfer-Encoding is supported")
                  ELSE FramingChunked
    ELSE FramingContentLength(IF content_length = <<>> THEN 0 ELSE content_length[1])

\* The `for line in lines` loop of Conn::parse_body_framing
RECURSIVE FramingScan(_, _, _)
FramingScan(lines, content_length, transfer_encoding) ==
    IF lines = <<>> \/ Head(lines) = <<>>
    THEN FramingDecision(content_length, transfer_encoding)
    ELSE LET nv == SplitOnce(Head(lines), ":")
         IN  IF nv = <<>>
             THEN FramingScan(Tail(lines), content_length, transfer_encoding)
             ELSE IF ~EqIgnoreAsciiCase(nv[1], H_ContentLength)
             THEN IF EqIgnoreAsciiCase(nv[1], H_TransferEncoding)
                  THEN IF transfer_encoding # <<>>
                       THEN FramingErr("duplicate Transfer-Encoding header")
                       ELSE FramingScan(Tail(lines), content_length,
                                        <<ToAsciiLowercase(Trim(nv[2]))>>)
                  ELSE FramingScan(Tail(lines), content_length, transfer_encoding)
             ELSE IF content_length # <<>>
             THEN FramingErr("duplicate Content-Length header")
             ELSE LET parsed == ParseUsize(Trim(nv[2]), 10)
                  IN  IF parsed = <<>>
                      THEN FramingErr("Content-Length must be a non-negative integer")
                      ELSE FramingScan(Tail(lines), parsed, transfer_encoding)

\* Conn::parse_body_framing
ParseBodyFraming(header_bytes) ==
    IF ~Utf8Valid(header_bytes)
    THEN FramingErr("request headers are not valid UTF-8")
    ELSE FramingScan(Tail(Split(header_bytes, CRLF)), <<>>, <<>>)

\* Result<Option<(Vec<u8>, usize)>, String> of the chunk decoder
DecodeNone == [kind |-> "None", body |-> <<>>, consumed |-> 0, reason |-> ""]
DecodeSome(body, consumed) ==
    [kind |-> "Some", body |-> body, consumed |-> consumed, reason |-> ""]
DecodeErr(reason) == [kind |-> "Err", body |-> <<>>, consumed |-> 0, reason |-> reason]
\* No result: the decoder panicked
DecodePanic(reason) ==
    [kind |-> "Panic", body |-> <<>>, consumed |-> 0, reason |-> reason]

\* The inner trailer loop of Conn::decode_chunked_body
RECURSIVE DecodeTrailers(_, _, _)
DecodeTrailers(raw, pos, out) ==
    LET rel == Position(SliceFrom(raw, pos), CRLF)
    IN  IF rel = <<>> THEN DecodeNone
        ELSE LET line_end == pos + rel[1]
                 line == Slice(raw, pos, line_end)
             IN  IF line = <<>> THEN DecodeSome(out, line_end + 2)
                 ELSE DecodeTrailers(raw, line_end + 2, out)

\* A faulty variant of the outer loop: the body is complete at the line of the
\* zero-size chunk
RECURSIVE DecodeChunks_EndsAtZeroLine(_, _, _)
DecodeChunks_EndsAtZeroLine(raw, pos, out) ==
    LET rel == Position(SliceFrom(raw, pos), CRLF)
    IN  IF rel = <<>> THEN DecodeNone
        ELSE
        LET line_end == pos + rel[1]
            size_line == Slice(raw, pos, line_end)
        IN  IF ~Utf8Valid(size_line)
            THEN DecodeErr("chunk size line is not valid UTF-8")
            ELSE
            LET so == SplitOnce(size_line, ";")
                size_token == Trim(IF so = <<>> THEN size_line ELSE so[1])
            IN  IF size_token = <<>> THEN DecodeErr("chunk size is missing")
                ELSE
                LET parsed == ParseUsize(size_token, 16)
                IN  IF parsed = <<>>
                    THEN DecodeErr("chunk size is not valid hexadecimal")
                    ELSE
                    LET chunk_size == parsed[1]
                        data == line_end + 2
                    IN  IF chunk_size = 0 THEN DecodeSome(out, data)
                        ELSE IF Len(raw) < data + chunk_size + 2 THEN DecodeNone
                        ELSE IF Slice(raw, data + chunk_size, data + chunk_size + 2) # CRLF
                        THEN DecodeErr("chunk data is not terminated with CRLF")
                        ELSE IF chunk_size # 0
                        THEN DecodeChunks_EndsAtZeroLine(raw, data + chunk_size + 2,
                                          out \o Slice(raw, data, data + chunk_size))
                        ELSE DecodeTrailers(raw, data + chunk_size + 2,
                                            out \o Slice(raw, data, data + chunk_size))

\* The outer loop of Conn::decode_chunked_body, from offset pos with body out
RECURSIVE DecodeChunks(_, _, _)
DecodeChunks(raw, pos, out) ==
    LET rel == Position(SliceFrom(raw, pos), CRLF)
    IN  IF rel = <<>> THEN DecodeNone
        ELSE
        LET line_end == pos + rel[1]
            size_line == Slice(raw, pos, line_end)
        IN  IF ~Utf8Valid(size_line)
            THEN DecodeErr("chunk size line is not valid UTF-8")
            ELSE
            LET so == SplitOnce(size_line, ";")
                size_token == Trim(IF so = <<>> THEN size_line ELSE so[1])
            IN  IF size_token = <<>> THEN DecodeErr("chunk size is missing")
                ELSE
                LET parsed == ParseUsize(size_token, 16)
                IN  IF parsed = <<>>
                    THEN DecodeErr("chunk size is not valid hexadecimal")
                    ELSE
                    LET chunk_size == parsed[1]
                        data == line_end + 2
                        data_end == AddUsize(data, chunk_size)
                        next == IF data_end.panic THEN data_end
                                ELSE AddUsize(data_end.value, 2)
                    IN  IF next.panic
                        THEN DecodePanic("attempt to add with overflow")
                        ELSE IF Len(raw) < next.value THEN DecodeNone
                        ELSE IF ~RangeOk(raw, data, data_end.value)
                        THEN DecodePanic("slice index out of range")
                        ELSE IF ~RangeOk(raw, data_end.value, next.value)
                        THEN DecodePanic("slice index out of range")
                        ELSE IF Slice(raw, data_end.value, next.value) # CRLF
                        THEN DecodeErr("chunk data is not terminated with CRLF")
                        ELSE IF chunk_size # 0
                        THEN DecodeChunks(raw, next.value,
                                          out \o Slice(raw, data, data_end.value))
                        ELSE DecodeTrailers(raw, next.value,
                                            out \o Slice(raw, data, data_end.value))

\* Conn::decode_chunked_body
DecodeChunkedBody(raw) == DecodeChunks(raw, 0, <<>>)

\* Conn::find_header_end: <<>> or <<offset just after the first CRLF CRLF>>
FindHeaderEnd(in_buf) ==
    LET p == Position(in_buf, CRLF \o CRLF)
    IN  IF p = <<>> THEN <<>> ELSE <<p[1] + 4>>

\* Conn::build_pending_request
BuildPendingRequest(c, header_end, body_bytes) ==
    [header_bytes |-> Slice(c.in_buf, 0, header_end),
     body_bytes |-> body_bytes,
     local_port |-> c.local_port]

\* A faulty variant of read_body_content_length: the body is everything
\* buffered after the header block
ReadBodyContentLength_ToEnd(c, header_end, content_length) ==
    LET total_len == header_end + content_length
    IN  IF Len(c.in_buf) < total_len THEN OutPending
        ELSE OutReady(BuildPendingRequest(c, header_end,
                                          SliceFrom(c.in_buf, header_end)))

\* A faulty variant of read_body_content_length: it waits for one byte more
\* than the declared body
ReadBodyContentLength_OneMore(c, header_end, content_length) ==
    LET total_len == header_end + content_length
    IN  IF Len(c.in_buf) <= total_len THEN OutPending
        ELSE OutReady(BuildPendingRequest(c, header_end,
                                          Slice(c.in_buf, header_end, total_len)))

\* Conn::read_body_content_length; c is the connection, the result its outcome
ReadBodyContentLength(c, header_end, content_length) ==
    LET total_len == AddUsize(header_end, content_length)
    IN  IF total_len.panic THEN OutPanic("attempt to add with overflow")
        ELSE IF Len(c.in_buf) < total_len.value THEN OutPending
        ELSE IF ~RangeOk(c.in_buf, header_end, total_len.value)
        THEN OutPanic("slice index out of range")
        ELSE OutReady(BuildPendingRequest(c, header_end,
                                 Slice(c.in_buf, header_end, total_len.value)))

\* Conn::read_body_chunked
ReadBodyChunked(c, header_end) ==
    LET d == DecodeChunkedBody(SliceFrom(c.in_buf, header_end))
    IN  CASE d.kind = "None" -> OutPending
          [] d.kind = "Err" -> OutError("BadRequest", d.reason)
          [] d.kind = "Some" -> OutReady(BuildPendingRequest(c, header_end, d.body))
          [] d.kind = "Panic" -> OutPanic(d.reason)

\* Conn::read_headers: the connection after the call and the outcome
ReadHeaders(c) ==
    LET he == FindHeaderEnd(c.in_buf)
    IN  IF he = <<>> THEN [conn |-> c, out |-> OutPending]
        ELSE
        LET header_end == he[1]
            framing == ParseBodyFraming(Slice(c.in_buf, 0, header_end))
        IN  IF ~framing.ok
            THEN [conn |-> c, out |-> OutError("BadRequest", framing.reason)]
            ELSE IF framing.framing = "ContentLength" /\ framing.len = 0
            THEN [conn |-> c,
                  out |-> OutReady(BuildPendingRequest(c, header_end, <<>>))]
            ELSE IF framing.framing = "ContentLength"
            THEN LET c2 == [c EXCEPT !.state =
                               StReadingBodyContentLength(header_end, framing.len)]
                 IN  [conn |-> c2,
                      out |-> ReadBodyContentLength(c2, header_end, framing.len)]
            ELSE LET c2 == [c EXCEPT !.state = StReadingBodyChunked(header_end)]
                 IN  [conn |-> c2, out |-> ReadBodyChunked(c2, header_end)]

\* A faulty variant of read_outcome: a connection that is Responding parses
\* its buffer again
ReadOutcome_Reparses(self, new_bytes) ==
    LET c == [self EXCEPT !.in_buf = @ \o new_bytes]
    IN  CASE c.state.tag \in {"ReadingHeaders", "Responding"} -> ReadHeaders(c)
          [] c.state.tag = "ReadingBodyContentLength" ->
                [conn |-> c,
                 out |-> ReadBodyContentLength(c, c.state.header_end,
                                               c.state.content_length)]
          [] c.state.tag = "ReadingBodyChunked" ->
                [conn |-> c, out |-> ReadBodyChunked(c, c.state.header_end)]

\* Conn::read_outcome: the connection after the call and the outcome
ReadOutcome(self, new_bytes) ==
    LET c == [self EXCEPT !.in_buf = @ \o new_bytes]
    IN  CASE c.state.tag = "ReadingHeaders" -> ReadHeaders(c)
          [] c.state.tag = "ReadingBodyContentLength" ->
                [conn |-> c,
                 out |-> ReadBodyContentLength(c, c.state.header_end,
                                               c.state.content_length)]
          [] c.state.tag = "ReadingBodyChunked" ->
                [conn |-> c, out |-> ReadBodyChunked(c, c.state.header_end)]
          [] c.state.tag = "Responding" -> [conn |-> c, out |-> OutPending]

\* ------------------------------------------------------------------------
\* https.rs: methods, header maps, requests and responses
\* ------------------------------------------------------------------------

\* "OK"
R_Ok ==
    <<"O","K">>

\* "Created"
R_Created ==
    <<"C","r","e","a","t","e","d">>

\* "No Content"
R_NoContent ==
    <<"N","o"," ","C","o","n","t","e","n","t">>

\* "Bad Request"
R_BadRequest ==
    <<"B","a","d"," ","R","e","q","u","e","s","t">>

\* "Forbidden"
R_Forbidden ==
    <<"F","o","r","b","i","d","d","e","n">>

\* "Not Found"
R_NotFound ==
    <<"N","o","t"," ","F","o","u","n","d">>

\* "Method Not Allowed"
R_MethodNotAllowed ==
    <<"M","e","t","h","o","d"," ","N","o","t"," ","A","l","l","o","w","e",
      "d">>

\* "Payload Too Large"
R_PayloadTooLarge ==
    <<"P","a","y","l","o","a","d"," ","T","o","o"," ","L","a","r","g","e">>

\* "Internal Server Error"
R_InternalServerError ==
    <<"I","n","t","e","r","n","a","l"," ","S","e","r","v","e","r"," ","E","r",
      "r","o","r">>

\* "HTTP Version Not Supported"
R_VersionNotSupported ==
    <<"H","T","T","P"," ","V","e","r","s","i","o","n"," ","N","o","t"," ","S",
      "u","p","p","o","r","t","e","d">>

\* "HTTP/1.1"
V_Http11 ==
    <<"H","T","T","P","/","1",".","1">>

\* "HTTP/1.0"
V_Http10 ==
    <<"H","T","T","P","/","1",".","0">>

\* "GET"
M_GET ==
    <<"G","E","T">>

\* "POST"
M_POST ==
    <<"P","O","S","T">>

\* "DELETE"
M_DELETE ==
    <<"D","E","L","E","T","E">>

\* "<html><body><h1>"
HtmlOpen ==
    <<"<","h","t","m","l",">","<","b","o","d","y",">","<","h","1",">">>

\* "</h1></body></html>"
HtmlClose ==
    <<"<","/","h","1",">","<","/","b","o","d","y",">","<","/","h","t","m","l",
      ">">>

\* "text/html; charset=utf-8"
CT_Html ==
    <<"t","e","x","t","/","h","t","m","l",";"," ","c","h","a","r","s","e","t",
      "=","u","t","f","-","8">>

\* "text/plain"
CT_Text ==
    <<"t","e","x","t","/","p","l","a","i","n">>

\* "Content-Type"
N_ContentType ==
    <<"C","o","n","t","e","n","t","-","T","y","p","e">>

\* "Connection"
N_Connection ==
    <<"C","o","n","n","e","c","t","i","o","n">>

\* "Set-Cookie"
N_SetCookie ==
    <<"S","e","t","-","C","o","o","k","i","e">>

\* "cookie"
N_cookie ==
    <<"c","o","o","k","i","e">>

\* "close"
W_close ==
    <<"c","l","o","s","e">>

\* "sid"
W_sid ==
    <<"s","i","d">>

\* "sid="
CookiePrefix ==
    <<"s","i","d","=">>

\* "; Path=/; HttpOnly; SameSite=Lax"
CookieSuffix ==
    <<";"," ","P","a","t","h","=","/",";"," ","H","t","t","p","O","n","l","y",
      ";"," ","S","a","m","e","S","i","t","e","=","L","a","x">>

\* StatusCode::reason
StatusReason(status) ==
    CASE status = "Ok" -> R_Ok
      [] status = "Created" -> R_Created
      [] status = "NoContent" -> R_NoContent
      [] status = "BadRequest" -> R_BadRequest
      [] status = "Forbidden" -> R_Forbidden
      [] status = "NotFound" -> R_NotFound
      [] status = "MethodNotAllowed" -> R_MethodNotAllowed
      [] status = "PayloadTooLarge" -> R_PayloadTooLarge
      [] status = "InternalServerError" -> R_InternalServerError
      [] status = "VersionNotSupported" -> R_VersionNotSupported

\* HttpMethod::from_str
MethodFromStr(s) ==
    CASE s = M_GET -> [tag |-> "Get", name |-> <<>>]
      [] s = M_POST -> [tag |-> "Post", name |-> <<>>]
      [] s = M_DELETE -> [tag |-> "Delete", name |-> <<>>]
      [] OTHER -> [tag |-> "Unknown", name |-> s]

\* HeaderMap::default: a map from lower-cased names to values
EmptyMap == [k \in {} |-> <<>>]

\* HashMap::insert
MapInsert(m, k, v) == [x \in DOMAIN m \cup {k} |-> IF x = k THEN v ELSE m[x]]

\* HeaderMap::insert
HeaderInsert(h, name, value) == MapInsert(h, ToAsciiLowercase(name), Trim(value))

\* HeaderMap::get: <<>> or <<value>>
HeaderGet(h, name) ==
    LET k == ToAsciiLowercase(name)
    IN  IF k \in DOMAIN h THEN <<h[k]>> ELSE <<>>

\* usize::to_string / u16 Display
RECURSIVE ToDec(_)
ToDec(n) ==
    IF n < 10 THEN <<HexDigits[n + 1]>>
    ELSE ToDec(n \div 10) \o <<HexDigits[(n % 10) + 1]>>

\* The header lines of Response::to_bytes.  The source iterates a HashMap,
\* whose order is arbitrary; the model emits the names in one fixed order.
RECURSIVE HeaderLines(_, _)
HeaderLines(h, names) ==
    IF names = {} THEN <<>>
    ELSE LET k == CHOOSE x \in names : TRUE
         IN  k \o <<":", " ">> \o h[k] \o CRLF \o HeaderLines(h, names \ {k})

\* Response::to_bytes
ToBytes(resp) ==
    resp.version \o <<" ">> \o ToDec(StatusCodeOf(resp.status)) \o <<" ">>
        \o StatusReason(resp.status) \o CRLF
        \o HeaderLines(resp.headers, DOMAIN resp.headers)
        \o CRLF \o resp.body

\* response_with_body
ResponseWithBody(version, status, content_type, body) ==
    [version |-> version,
     status |-> status,
     headers |-> HeaderInsert(
                    HeaderInsert(
                        HeaderInsert(EmptyMap, N_ContentType, content_type),
                        H_ContentLength, ToDec(Len(body))),
                    N_Connection, W_close),
     body |-> body]

\* ------------------------------------------------------------------------
\* router.rs: parsing, matching and sessions
\* ------------------------------------------------------------------------

EPOLL_WAIT_MS == 1000
IDLE_TIMEOUT_SECS == 10
SESSION_TTL_SECS == 60 * 30

\* The model's clock counts seconds
EPOLL_WAIT_SECS == EPOLL_WAIT_MS \div 1000

\* The size of the stack buffer handle_client_readable receives into
RECV_BUF_LEN == 4096

\* error_response
ErrorResponse(version, status) ==
    ResponseWithBody(version, status, CT_Html,
                     HtmlOpen \o ToDec(StatusCodeOf(status)) \o <<" ">>
                         \o StatusReason(status) \o HtmlClose)

\* str::split_whitespace
RECURSIVE SplitWhitespace(_)
SplitWhitespace(s) ==
    LET t == TrimStart(s)
    IN  IF t = <<>> THEN <<>>
        ELSE LET ends == {i \in 1..Len(t) : t[i] \in WhiteSpace}
                 n == IF ends = {} THEN Len(t) ELSE SetMin(ends) - 1
             IN  <<SubSeq(t, 1, n)>> \o SplitWhitespace(SubSeq(t, n + 1, Len(t)))

\* The header loop of parse_request
RECURSIVE ParseHeaderLines(_, _)
ParseHeaderLines(lines, headers) ==
    IF lines = <<>> \/ Head(lines) = <<>> THEN headers
    ELSE LET nv == SplitOnce(Head(lines), ":")
         IN  ParseHeaderLines(Tail(lines),
                              IF nv = <<>> THEN headers
                              ELSE HeaderInsert(headers, nv[1], nv[2]))

NoRequest ==
    [method |-> [tag |-> "Unknown", name |-> <<>>], path |-> <<>>, query |-> <<>>,
     version |-> <<>>, headers |-> EmptyMap, body |-> <<>>]

ParseErr(status, reason) ==
    [ok |-> FALSE, status |-> status, reason |-> reason, req |-> NoRequest]

\* A faulty variant of parse_request: the body of a POST is checked before
\* the version
ParseRequest_BodyCheckFirst(header_bytes, body) ==
    IF ~Utf8Valid(header_bytes)
    THEN ParseErr("BadRequest", "request headers are not valid UTF-8")
    ELSE
    LET lines == Split(header_bytes, CRLF)
        parts == SplitWhitespace(Head(lines))
    IN  IF Len(parts) < 1 THEN ParseErr("BadRequest", "missing HTTP method")
        ELSE IF Len(parts) < 2 THEN ParseErr("BadRequest", "missing request path")
        ELSE IF Len(parts) < 3 THEN ParseErr("BadRequest", "missing HTTP version")
        ELSE IF Len(parts) > 3
        THEN ParseErr("BadRequest", "request line has extra fields")
        ELSE
        LET method == MethodFromStr(parts[1])
        IN  IF method.tag = "Post" /\ body = <<>>
            THEN ParseErr("BadRequest", "POST request requires a non-empty body")
            ELSE IF parts[3] # V_Http11 /\ parts[3] # V_Http10
            THEN ParseErr("VersionNotSupported", "unsupported HTTP version")
            ELSE
            LET pq == SplitOnce(parts[2], "?")
            IN  [ok |-> TRUE, status |-> "Ok", reason |-> "",
                 req |-> [method |-> method,
                          path |-> IF pq = <<>> THEN parts[2] ELSE pq[1],
                          query |-> IF pq = <<>> THEN <<>> ELSE pq[2],
                          version |-> parts[3],
                          headers |-> ParseHeaderLines(Tail(lines), EmptyMap),
                          body |-> body]]

\* A faulty variant of parse_request: a POST may have an empty body
ParseRequest_NoBodyCheck(header_bytes, body) ==
    IF ~Utf8Valid(header_bytes)
    THEN ParseErr("BadRequest", "request headers are not valid UTF-8")
    ELSE
    LET lines == Split(header_bytes, CRLF)
        parts == SplitWhitespace(Head(lines))
    IN  IF Len(parts) < 1 THEN ParseErr("BadRequest", "missing HTTP method")
        ELSE IF Len(parts) < 2 THEN ParseErr("BadRequest", "missing request path")
        ELSE IF Len(parts) < 3 THEN ParseErr("BadRequest", "missing HTTP version")
        ELSE IF Len(parts) > 3
        THEN ParseErr("BadRequest", "request line has extra fields")
        ELSE IF parts[3] # V_Http11 /\ parts[3] # V_Http10
        THEN ParseErr("VersionNotSupported", "unsupported HTTP version")
        ELSE
        LET method == MethodFromStr(parts[1])
        IN
            LET pq == SplitOnce(parts[2], "?")
            IN  [ok |-> TRUE, status |-> "Ok", reason |-> "",
                 req |-> [method |-> method,
                          path |-> IF pq = <<>> THEN parts[2] ELSE pq[1],
                          query |-> IF pq = <<>> THEN <<>> ELSE pq[2],
                          version |-> parts[3],
                          headers |-> ParseHeaderLines(Tail(lines), EmptyMap),
                          body |-> body]]

\* parse_request
ParseRequest(header_bytes, body) ==
    IF ~Utf8Valid(header_bytes)
    THEN ParseErr("BadRequest", "request headers are not valid UTF-8")
    ELSE
    LET lines == Split(header_bytes, CRLF)
        parts == SplitWhitespace(Head(lines))
    IN  IF Len(parts) < 1 THEN ParseErr("BadRequest", "missing HTTP method")
        ELSE IF Len(parts) < 2 THEN ParseErr("BadRequest", "missing request path")
        ELSE IF Len(parts) < 3 THEN ParseErr("BadRequest", "missing HTTP version")
        ELSE IF Len(parts) > 3
        THEN ParseErr("BadRequest", "request line has extra fields")
        ELSE IF parts[3] # V_Http11 /\ parts[3] # V_Http10
        THEN ParseErr("VersionNotSupported", "unsupported HTTP version")
        ELSE
        LET method == MethodFromStr(parts[1])
        IN  IF method.tag = "Post" /\ body = <<>>
            THEN ParseErr("BadRequest", "POST request requires a non-empty body")
            ELSE
            LET pq == SplitOnce(parts[2], "?")
            IN  [ok |-> TRUE, status |-> "Ok", reason |-> "",
                 req |-> [method |-> method,
                          path |-> IF pq = <<>> THEN parts[2] ELSE pq[1],
                          query |-> IF pq = <<>> THEN <<>> ELSE pq[2],
                          version |-> parts[3],
                          headers |-> ParseHeaderLines(Tail(lines), EmptyMap),
                          body |-> body]]

\* str::trim_matches(ch)
RECURSIVE TrimMatches(_, _)
TrimMatches(s, ch) ==
    IF s # <<>> /\ Head(s) = ch THEN TrimMatches(Tail(s), ch)
    ELSE IF s # <<>> /\ s[Len(s)] = ch THEN TrimMatches(SubSeq(s, 1, Len(s) - 1), ch)
    ELSE s

\* The zip loop of match_pattern: <<>> (None) or <<bindings>>
RECURSIVE MatchSegments(_, _, _)
MatchSegments(p_segs, r_segs, out) ==
    IF p_segs = <<>> THEN <<out>>
    ELSE LET ps == Head(p_segs)
             rs == Head(r_segs)
         IN  IF ps # <<>> /\ Head(ps) = ":"
             THEN IF Tail(ps) = <<>> THEN <<>>
                  ELSE MatchSegments(Tail(p_segs), Tail(r_segs),
                                     MapInsert(out, Tail(ps), rs))
             ELSE IF ps # rs THEN <<>>
             ELSE MatchSegments(Tail(p_segs), Tail(r_segs), out)

\* The segments match_pattern compares: the text without leading and trailing
\* '/', split on '/'; no segment for the empty text
PathSegments(text) ==
    IF TrimMatches(text, "/") = <<>> THEN <<>>
    ELSE Split(TrimMatches(text, "/"), <<"/">>)

\* A faulty variant of match_pattern: the segments are compared pairwise up
\* to the end of the shorter list
MatchPattern_NoLengthCheck(pattern, req_path) ==
    LET p_segs == PathSegments(pattern)
        r_segs == PathSegments(req_path)
        n == IF Len(p_segs) < Len(r_segs) THEN Len(p_segs) ELSE Len(r_segs)
    IN  MatchSegments(SubSeq(p_segs, 1, n), SubSeq(r_segs, 1, n), EmptyMap)

\* match_pattern: <<>> (None) or <<path parameters>>
MatchPattern(pattern, req_path) ==
    LET p == TrimMatches(pattern, "/")
        r == TrimMatches(req_path, "/")
        p_segs == IF p = <<>> THEN <<>> ELSE Split(p, <<"/">>)
        r_segs == IF r = <<>> THEN <<>> ELSE Split(r, <<"/">>)
    IN  IF Len(p_segs) # Len(r_segs) THEN <<>>
        ELSE MatchSegments(p_segs, r_segs, EmptyMap)

\* The loop of parse_query over the '&'-separated pairs
RECURSIVE ParseQueryPairs(_, _)
ParseQueryPairs(pairs, out) ==
    IF pairs = <<>> THEN out
    ELSE LET pair == Head(pairs)
             kv == SplitOnce(pair, "=")
             k == IF kv = <<>> THEN pair ELSE kv[1]
             v == IF kv = <<>> THEN <<>> ELSE kv[2]
         IN  ParseQueryPairs(Tail(pairs),
                             IF pair # <<>> /\ k # <<>> THEN MapInsert(out, k, v)
                             ELSE out)

\* parse_query
ParseQuery(query) ==
    IF query = <<>> THEN EmptyMap ELSE ParseQueryPairs(Split(query, <<"&">>), EmptyMap)

\* collect_headers
CollectHeaders(req) == [k \in DOMAIN req.headers |-> req.headers[k]]

\* The loop of parse_cookie_header over the ';'-separated parts
RECURSIVE ParseCookieParts(_, _)
ParseCookieParts(parts, out) ==
    IF parts = <<>> THEN out
    ELSE LET trimmed == Trim(Head(parts))
             kv == SplitOnce(trimmed, "=")
         IN  ParseCookieParts(
                 Tail(parts),
                 IF trimmed = <<>> \/ kv = <<>> \/ Trim(kv[1]) = <<>> THEN out
                 ELSE MapInsert(out, Trim(kv[1]), Trim(kv[2])))

\* parse_cookie_header
ParseCookieHeader(cookie) == ParseCookieParts(Split(cookie, <<";">>), EmptyMap)

\* Instant::duration_since (saturating at zero)
DurationSince(later, earlier) == IF later >= earlier THEN later - earlier ELSE 0

\* The sid among the cookies of a request: <<>> or <<sid>>
SidAmong(cookies) == IF W_sid \in DOMAIN cookies THEN <<cookies[W_sid]>> ELSE <<>>

\* The sid in the value of the cookie header: raw is <<>> or <<value>>
SidOf(raw) == IF raw = <<>> THEN <<>> ELSE SidAmong(ParseCookieHeader(raw[1]))

\* The sid cookie of a request, as resolve_session extracts it: <<>> or <<sid>>
CookieSid(req) == SidOf(HeaderGet(req.headers, N_cookie))

\* A faulty variant of resolve_session: the cookie is never looked up
ResolveSession_AlwaysMints(store, req, at, fresh) ==
    [sessions |-> MapInsert(store, fresh,
                     [id |-> fresh, created_at |-> at, last_seen |-> at,
                      visits |-> 1]),
     session_id |-> fresh,
     is_new_session |-> TRUE]

\* A faulty variant of resolve_session: a sid cookie that names no session
\* becomes the key of the new session
ResolveSid_AdoptsCookie(store, cookie_sid, at, fresh) ==
    IF cookie_sid # <<>> /\ cookie_sid[1] \in DOMAIN store
    THEN [sessions |-> [store EXCEPT ![cookie_sid[1]] =
                           [@ EXCEPT !.last_seen = at, !.visits = @ + 1]],
          session_id |-> cookie_sid[1],
          is_new_session |-> FALSE]
    ELSE LET sid == IF cookie_sid # <<>> THEN cookie_sid[1] ELSE fresh
         IN  [sessions |-> MapInsert(store, sid,
                               [id |-> sid, created_at |-> at,
                                last_seen |-> at, visits |-> 1]),
              session_id |-> sid,
              is_new_session |-> TRUE]

\* resolve_session once the sid cookie was extracted
ResolveSid(store, cookie_sid, at, fresh) ==
    IF cookie_sid # <<>> /\ cookie_sid[1] \in DOMAIN store
    THEN [sessions |-> [store EXCEPT ![cookie_sid[1]] =
                           [@ EXCEPT !.last_seen = at, !.visits = @ + 1]],
          session_id |-> cookie_sid[1],
          is_new_session |-> FALSE]
    ELSE [sessions |-> MapInsert(store, fresh,
                           [id |-> fresh, created_at |-> at,
                            last_seen |-> at, visits |-> 1]),
          session_id |-> fresh,
          is_new_session |-> TRUE]

\* resolve_session; fresh is the identifier generate_session_id returns if it
\* is called.  The result: the store, the session id and is_new_session
ResolveSession(store, req, at, fresh) == ResolveSid(store, CookieSid(req), at, fresh)

\* A faulty variant of cleanup_expired_sessions: a session whose age equals
\* the lifetime is removed
CleanupExpiredSessions_AtTtl(store, at) ==
    LET keep == {s \in DOMAIN store :
                    DurationSince(at, store[s].last_seen) < SESSION_TTL_SECS}
    IN  [s \in keep |-> store[s]]

\* cleanup_expired_sessions
CleanupExpiredSessions(store, at) ==
    LET keep == {s \in DOMAIN store :
                    DurationSince(at, store[s].last_seen) <= SESSION_TTL_SECS}
    IN  [s \in keep |-> store[s]]

\* A faulty variant of collect_timed_out_conns: a connection idle for exactly
\* the timeout is collected
CollectTimedOutConns_AtTimeout(table, at) ==
    {fd \in DOMAIN table :
        DurationSince(at, table[fd].last_activity) >= IDLE_TIMEOUT_SECS}

\* collect_timed_out_conns: the handles of the connections idle for too long
CollectTimedOutConns(table, at) ==
    {fd \in DOMAIN table :
        DurationSince(at, table[fd].last_activity) > IDLE_TIMEOUT_SECS}

\* A business handler (one of the functions main registers): it answers 200
\* with a short text body in the version of the request
CallHandler(handler, req, data) == ResponseWithBody(req.version, "Ok", CT_Text, handler)

\* A faulty variant of the route loop: a route that matches the path but not
\* the method ends the scan
RECURSIVE ScanRoutes_StopsAtPath(_, _, _)
ScanRoutes_StopsAtPath(rs, req, wrong_method) ==
    IF rs = <<>>
    THEN [found |-> FALSE, handler |-> <<>>, path_value |-> EmptyMap,
          matched_path_but_wrong_method |-> wrong_method]
    ELSE LET route == Head(rs)
             pv == MatchPattern(route.pattern, req.path)
         IN  IF pv = <<>> THEN ScanRoutes_StopsAtPath(Tail(rs), req, wrong_method)
             ELSE IF ~(\E i \in 1..Len(route.methods) : route.methods[i] = req.method)
             THEN [found |-> FALSE, handler |-> <<>>, path_value |-> EmptyMap,
                   matched_path_but_wrong_method |-> TRUE]
             ELSE [found |-> TRUE, handler |-> route.handler, path_value |-> pv[1],
                   matched_path_but_wrong_method |-> wrong_method]

\* The route loop of Router::handle: the first route matching path and
\* method, and whether some route matched the path but not the method
RECURSIVE ScanRoutes(_, _, _)
ScanRoutes(rs, req, wrong_method) ==
    IF rs = <<>>
    THEN [found |-> FALSE, handler |-> <<>>, path_value |-> EmptyMap,
          matched_path_but_wrong_method |-> wrong_method]
    ELSE LET route == Head(rs)
             pv == MatchPattern(route.pattern, req.path)
         IN  IF pv = <<>> THEN ScanRoutes(Tail(rs), req, wrong_method)
             ELSE IF ~(\E i \in 1..Len(route.methods) : route.methods[i] = req.method)
             THEN ScanRoutes(Tail(rs), req, TRUE)
             ELSE [found |-> TRUE, handler |-> route.handler, path_value |-> pv[1],
                   matched_path_but_wrong_method |-> wrong_method]

\* The result of Router::handle for a request that reached no handler
NotDispatched(store, version, status) ==
    [resp |-> ErrorResponse(version, status), sessions |-> store,
     dispatched |-> FALSE, session_id |-> <<>>, is_new_session |-> FALSE]

\* A faulty variant of the cookie step: every dispatched response gets the
\* cookie
WithSessionCookie_Always(resp, session_id, is_new_session) ==
    [resp EXCEPT !.headers =
        HeaderInsert(@, N_SetCookie, CookiePrefix \o session_id \o CookieSuffix)]

\* The end of Router::handle: a newly minted session is announced to the peer
WithSessionCookie(resp, session_id, is_new_session) ==
    IF is_new_session
    THEN [resp EXCEPT !.headers =
             HeaderInsert(@, N_SetCookie, CookiePrefix \o session_id \o CookieSuffix)]
    ELSE resp

\* Router::handle once resolve_session returned s for the route found as m
HandleSession(req, m, s) ==
    [resp |-> WithSessionCookie(
                  CallHandler(m.handler, req,
                              [path_value |-> m.path_value,
                               query_value |-> ParseQuery(req.query),
                               header_value |-> CollectHeaders(req),
                               session_id |-> <<s.session_id>>,
                               is_new_session |-> s.is_new_session]),
                  s.session_id, s.is_new_session),
     sessions |-> s.sessions,
     dispatched |-> TRUE,
     session_id |-> <<s.session_id>>,
     is_new_session |-> s.is_new_session]

\* A faulty variant of the end of the route loop: a request without a route
\* is always answered NotFound
HandleFound_NotFoundOnly(store, at, fresh, req, m) ==
    IF ~m.found
    THEN NotDispatched(store, req.version, "NotFound")
    ELSE HandleSession(req, m, ResolveSession(store, req, at, fresh))

\* A faulty variant of the end of the route loop: the session is resolved
\* before the route is looked at
HandleFound_ResolvesFirst(store, at, fresh, req, m) ==
    IF ~m.found
    THEN NotDispatched(ResolveSession(store, req, at, fresh).sessions, req.version,
                       IF m.matched_path_but_wrong_method
                       THEN "MethodNotAllowed" ELSE "NotFound")
    ELSE HandleSession(req, m, ResolveSession(store, req, at, fresh))

\* Router::handle once the route loop ended as m
HandleFound(store, at, fresh, req, m) ==
    IF ~m.found
    THEN NotDispatched(store, req.version,
                       IF m.matched_path_but_wrong_method
                       THEN "MethodNotAllowed" ELSE "NotFound")
    ELSE HandleSession(req, m, ResolveSession(store, req, at, fresh))

\* A faulty variant of Router::handle: one table serves every port
Handle_OneTable(table, store, at, fresh, local_port, req) ==
    IF DOMAIN table = {}
    THEN NotDispatched(store, req.version, "NotFound")
    ELSE HandleFound(store, at, fresh, req,
                     ScanRoutes(table[CHOOSE port \in DOMAIN table : TRUE], req, FALSE))

\* Router::handle: the response, the session store afterwards, and what the
\* call did (whether a handler ran, the session it resolved)
Handle(table, store, at, fresh, local_port, req) ==
    IF local_port \notin DOMAIN table
    THEN NotDispatched(store, req.version, "NotFound")
    ELSE HandleFound(store, at, fresh, req, ScanRoutes(table[local_port], req, FALSE))

\* What handle_client_readable answers with the result h of Router::handle
Handled(h) ==
    [resp |-> h.resp, sessions |-> h.sessions, dispatched |-> h.dispatched,
     session_id |-> h.session_id, is_new_session |-> h.is_new_session,
     handled |-> 1, cause |-> "handle"]

\* Router::add_route
AddRoute(table, port, pattern, methods, handler) ==
    LET route == [methods |-> methods, pattern |-> pattern, handler |-> handler]
    IN  IF port \in DOMAIN table
        THEN [table EXCEPT ![port] = Append(@, route)]
        ELSE MapInsert(table, port, <<route>>)

\* ------------------------------------------------------------------------
\* Request bytes a peer may send (test inputs, built from literal pieces)
\* ------------------------------------------------------------------------

\* "GET / HTTP/1.1"
L_Get ==
    <<"G","E","T"," ","/"," ","H","T","T","P","/","1",".","1">>

\* "POST /up HTTP/1.1"
L_PostUp ==
    <<"P","O","S","T"," ","/","u","p"," ","H","T","T","P","/","1",".","1">>

\* "Content-Length: 5"
F_CL5 ==
    <<"C","o","n","t","e","n","t","-","L","e","n","g","t","h",":"," ","5">>

\* "content-length: 5"
F_cl5 ==
    <<"c","o","n","t","e","n","t","-","l","e","n","g","t","h",":"," ","5">>

\* "Content-Length: 0"
F_CL0 ==
    <<"C","o","n","t","e","n","t","-","L","e","n","g","t","h",":"," ","0">>

\* "Content-Length: 3"
F_CL3 ==
    <<"C","o","n","t","e","n","t","-","L","e","n","g","t","h",":"," ","3">>

\* "Content-Length: abc"
F_CLabc ==
    <<"C","o","n","t","e","n","t","-","L","e","n","g","t","h",":"," ","a","b",
      "c">>

\* "Content-Length: -1"
F_CLneg ==
    <<"C","o","n","t","e","n","t","-","L","e","n","g","t","h",":"," ","-",
      "1">>

\* "Transfer-Encoding: chunked"
F_TE ==
    <<"T","r","a","n","s","f","e","r","-","E","n","c","o","d","i","n","g",":",
      " ","c","h","u","n","k","e","d">>

\* "transfer-encoding: Chunked"
F_TEcaps ==
    <<"t","r","a","n","s","f","e","r","-","e","n","c","o","d","i","n","g",":",
      " ","C","h","u","n","k","e","d">>

\* "Transfer-Encoding: gzip"
F_TEgzip ==
    <<"T","r","a","n","s","f","e","r","-","E","n","c","o","d","i","n","g",":",
      " ","g","z","i","p">>

\* "Transfer-Encoding: gzip, chunked"
F_TEmix ==
    <<"T","r","a","n","s","f","e","r","-","E","n","c","o","d","i","n","g",":",
      " ","g","z","i","p",","," ","c","h","u","n","k","e","d">>

\* "Transfer-Encoding:"
F_TEempty ==
    <<"T","r","a","n","s","f","e","r","-","E","n","c","o","d","i","n","g",
      ":">>

\* "Transfer-Encoding: , ,"
F_TEcommas ==
    <<"T","r","a","n","s","f","e","r","-","E","n","c","o","d","i","n","g",":",
      " ",","," ",",">>

\* "Host: a"
F_Host ==
    <<"H","o","s","t",":"," ","a">>

\* "X: \xFF"
F_BadUtf8 ==
    <<"X",":"," ","xFF">>

\* "hello"
B_hello ==
    <<"h","e","l","l","o">>

\* "he"
B_he ==
    <<"h","e">>

\* "llo"
B_llo ==
    <<"l","l","o">>

\* "hel"
B_hel ==
    <<"h","e","l">>

\* "5"
T_5 ==
    <<"5">>

\* "2"
T_2 ==
    <<"2">>

\* "3"
T_3 ==
    <<"3">>

\* "0"
T_0 ==
    <<"0">>

\* "5;x=1"
T_5ext ==
    <<"5",";","x","=","1">>

\* "z"
T_z ==
    <<"z">>

\* "T: v"
T_Trailer ==
    <<"T",":"," ","v">>

\* "GET"
B_tail ==
    <<"G","E","T">>

\* The header block made of the given lines: each line and the final blank
\* line terminated by CRLF
RECURSIVE HeaderBlock(_)
HeaderBlock(lines) ==
    IF lines = <<>> THEN CRLF ELSE Head(lines) \o CRLF \o HeaderBlock(Tail(lines))

\* A peer's hexadecimal rendering of a chunk length
RECURSIVE ToHex(_)
ToHex(n) ==
    IF n < 16 THEN <<HexDigits[n + 1]>> ELSE ToHex(n \div 16) \o <<HexDigits[(n % 16) + 1]>>

\* A peer's chunked encoding of the given non-empty chunk payloads, up to and
\* including the zero-size chunk line
RECURSIVE ChunkLines(_)
ChunkLines(parts) ==
    IF parts = <<>> THEN T_0 \o CRLF
    ELSE ToHex(Len(Head(parts))) \o CRLF \o Head(parts) \o CRLF \o ChunkLines(Tail(parts))

\* All ways of cutting b into a sequence of non-empty chunks
RECURSIVE Chunkings(_)
Chunkings(b) ==
    IF b = <<>> THEN {<<>>}
    ELSE UNION {{<<Slice(b, 0, k)>> \o rest : rest \in Chunkings(SliceFrom(b, k))}
                : k \in 1..Len(b)}

\* A test input: the bytes on the wire, what kind of request it is, the length
\* of its header block, the body it carries and the length it declares
Input(kind, head, rest, body, declared) ==
    [kind |-> kind, bytes |-> head \o rest, hlen |-> Len(head),
     body |-> body, declared |-> declared]

ContentLengthInputs ==
    { Input("none", HeaderBlock(<<L_Get, F_Host>>), <<>>, <<>>, 0),
      Input("cl0", HeaderBlock(<<L_Get, F_CL0>>), <<>>, <<>>, 0),
      Input("cl", HeaderBlock(<<L_PostUp, F_CL5>>), B_hello, B_hello, 5),
      Input("cl", HeaderBlock(<<L_PostUp, F_Host, F_cl5>>), B_hello \o B_tail,
            B_hello, 5),
      Input("cl", HeaderBlock(<<L_PostUp, F_CL3>>), B_hello, B_hel, 3),
      Input("cl_short", HeaderBlock(<<L_PostUp, F_CL5>>), B_hel, B_hello, 5) }

\* Chunked requests ending in the zero-size chunk and its empty line
StandardChunkedInputs ==
    { Input("chunked_std", HeaderBlock(<<L_PostUp, F_TE>>),
            ChunkLines(parts) \o CRLF, B_hello, 0) : parts \in Chunkings(B_hello) }
    \cup
    { Input("chunked_std", HeaderBlock(<<L_PostUp, F_TEcaps>>),
            ChunkLines(<<>>) \o CRLF, <<>>, 0) }

\* Other chunked bodies: one more CRLF after the final empty line, a chunk
\* extension, a trailer line, a bad size token, a payload not followed by CRLF
OtherChunkedInputs ==
    { Input("chunked_extra", HeaderBlock(<<L_PostUp, F_TE>>),
            ChunkLines(<<B_he, B_llo>>) \o CRLF \o CRLF, B_hello, 0),
      Input("chunked_extra", HeaderBlock(<<L_PostUp, F_TE>>),
            T_5ext \o CRLF \o B_hello \o CRLF \o T_0 \o CRLF \o CRLF \o CRLF,
            B_hello, 0),
      Input("chunked_trailer", HeaderBlock(<<L_PostUp, F_TE>>),
            ChunkLines(<<B_hello>>) \o T_Trailer \o CRLF \o CRLF, B_hello, 0),
      Input("chunk_badhex", HeaderBlock(<<L_PostUp, F_TE>>),
            T_z \o CRLF \o B_hello \o CRLF, <<>>, 0),
      Input("chunk_nocrlf", HeaderBlock(<<L_PostUp, F_TE>>),
            T_3 \o CRLF \o B_hello \o CRLF, <<>>, 0) }

\* Requests whose framing headers are contradictory or malformed
BadFramingKinds == {"dupCL", "dupTE", "both", "otherTE", "emptyTE", "badCL"}

BadFramingInputs ==
    { Input("dupCL", HeaderBlock(<<L_PostUp, F_CL5, F_cl5>>), B_hello, <<>>, 0),
      Input("dupCL", HeaderBlock(<<L_PostUp, F_CL5, F_Host, F_CL3>>), B_hello, <<>>, 0),
      Input("dupTE", HeaderBlock(<<L_PostUp, F_TE, F_TEcaps>>),
            ChunkLines(<<B_hello>>) \o CRLF \o CRLF, <<>>, 0),
      Input("both", HeaderBlock(<<L_PostUp, F_CL5, F_TE>>), B_hello, <<>>, 0),
      Input("both", HeaderBlock(<<L_PostUp, F_TEcaps, F_cl5>>),
            ChunkLines(<<B_hello>>) \o CRLF \o CRLF, <<>>, 0),
      Input("otherTE", HeaderBlock(<<L_PostUp, F_TEgzip>>), B_hello, <<>>, 0),
      Input("otherTE", HeaderBlock(<<L_PostUp, F_TEmix>>),
            ChunkLines(<<B_hello>>) \o CRLF \o CRLF, <<>>, 0),
      Input("emptyTE", HeaderBlock(<<L_PostUp, F_TEempty>>), B_hello, <<>>, 0),
      Input("emptyTE", HeaderBlock(<<L_PostUp, F_TEcommas>>), B_hello, <<>>, 0),
      Input("badCL", HeaderBlock(<<L_PostUp, F_CLabc>>), B_hello, <<>>, 0),
      Input("badCL", HeaderBlock(<<L_PostUp, F_CLneg>>), B_hello, <<>>, 0),
      Input("badutf8", HeaderBlock(<<L_PostUp, F_BadUtf8, F_CL5>>), B_hello, <<>>, 0) }

Inputs ==
    ContentLengthInputs \cup StandardChunkedInputs \cup OtherChunkedInputs
        \cup BadFramingInputs

\* The listening ports of the model
Ports == {8080, 8081}

\* Bounds of the model
MaxConnects == 2
MaxTicks == 2
MaxSends == 2

\* How many bytes a send that accepts only a part of the buffer takes
PartialSend == 64

\* The Conn that handle_listen_ready inserts
NewConn(port, at) ==
    [local_port |-> port, in_buf |-> <<>>, out_buf |-> <<>>,
     state |-> StReadingHeaders, last_activity |-> at]

\* Router::new_on_ports: the listening handles and their ports
ListenFdToPort == [fd \in {3, 4} |-> IF fd = 3 THEN 8080 ELSE 8081]

\* A faulty variant of should_drop: a peer that shut its side down is not
\* reason enough
ShouldDrop_IgnoresRdhup(flags) == "ERR" \in flags \/ "HUP" \in flags

\* should_drop
ShouldDrop(flags) == "ERR" \in flags \/ "HUP" \in flags \/ "RDHUP" \in flags

\* generate_session_id: the n-th identifier generated.  The source draws 32
\* random bytes; the model takes identifiers to be fresh and unguessable.
GenerateSessionId(n) == ToHex(160 + n)

\* "GET /hello HTTP/1.1"
L_GetHello ==
    <<"G","E","T"," ","/","h","e","l","l","o"," ","H","T","T","P","/","1",".",
      "1">>

\* "GET /hello HTTP/2.0"
L_GetHello20 ==
    <<"G","E","T"," ","/","h","e","l","l","o"," ","H","T","T","P","/","2",".",
      "0">>

\* "GET /hello"
L_GetHelloShort ==
    <<"G","E","T"," ","/","h","e","l","l","o">>

\* "Cookie: sid="
F_CookieSid ==
    <<"C","o","o","k","i","e",":"," ","s","i","d","=">>

\* "/hello"
P_hello ==
    <<"/","h","e","l","l","o">>

\* "/up"
P_up ==
    <<"/","u","p">>

\* "hi"
HB_hi ==
    <<"h","i">>

\* "up"
HB_up ==
    <<"u","p">>

\* "zz"
SID_forged ==
    <<"z","z">>

\* The routes main registers before the loop starts
StartupRoutes ==
    AddRoute(
        AddRoute(
            AddRoute(EmptyMap, 8080, P_hello, <<MethodFromStr(M_GET)>>, HB_hi),
            8080, P_up, <<MethodFromStr(M_POST)>>, HB_up),
        8081, P_hello, <<MethodFromStr(M_GET), MethodFromStr(M_DELETE)>>, HB_hi)

\* ------------------------------------------------------------------------
\* What peers send to the reactor
\* ------------------------------------------------------------------------

\* A script: the pieces a peer writes one after the other, what kind of
\* request they make up, and the sid cookie they carry (<<>> for none)
Script(kind, pieces, cookie) == [kind |-> kind, pieces |-> pieces, cookie |-> cookie]

NoScript == Script("", <<>>, <<>>)

ProtocolErrorKinds ==
    {"framing_error", "chunk_error", "bad_request_line", "bad_version", "post_empty"}

IOScripts ==
    { Script("ok_get",
             <<Slice(HeaderBlock(<<L_GetHello, F_Host>>), 0, 9),
               SliceFrom(HeaderBlock(<<L_GetHello, F_Host>>), 9)>>, <<>>),
      Script("ok_post",
             <<HeaderBlock(<<L_PostUp, F_CL5>>) \o B_hello,
               HeaderBlock(<<L_GetHello>>)>>, <<>>),
      Script("framing_error",
             <<HeaderBlock(<<L_PostUp, F_CL5, F_TE>>) \o B_hello>>, <<>>),
      Script("chunk_error",
             <<HeaderBlock(<<L_PostUp, F_TE>>), T_z \o CRLF>>, <<>>),
      Script("bad_request_line", <<HeaderBlock(<<L_GetHelloShort>>)>>, <<>>),
      Script("bad_version", <<HeaderBlock(<<L_GetHello20>>)>>, <<>>),
      Script("post_empty", <<HeaderBlock(<<L_PostUp, F_CL0>>)>>, <<>>) }

SessionScripts ==
    { Script("ok_get", <<HeaderBlock(<<L_GetHello>>)>>, <<>>),
      Script("not_found", <<HeaderBlock(<<L_Get>>)>>, <<>>),
      Script("bad_version", <<HeaderBlock(<<L_GetHello20>>)>>, <<>>) }

\* The scripts a peer may start now: the fixed ones, and a request carrying a
\* sid cookie whose value is an identifier the server issued or a made-up one
CookieScripts ==
    { Script("ok_get", <<HeaderBlock(<<line, F_CookieSid \o sid>>)>>, <<sid>>) :
        line \in cfg.cookie_lines,
        sid \in {GenerateSessionId(n) : n \in 1..minted} \cup {SID_forged} }

AvailableScripts == cfg.scripts \cup CookieScripts

\* ------------------------------------------------------------------------
\* Request assembly alone: one fresh connection fed a request in fragments
\* ------------------------------------------------------------------------

\* The reactor's state before any connection
ReactorStart(c) ==
    /\ cfg = c
    /\ routes = StartupRoutes
    /\ conns = EmptyMap
    /\ sessions = EmptyMap
    /\ minted = 0
    /\ now = 0
    /\ ticks = 0
    /\ socks = EmptyMap
    /\ backlog = [l \in DOMAIN ListenFdToPort |-> 0]
    /\ connects = 0
    /\ interest = EmptyMap
    /\ pc = "wait"
    /\ ready = EmptyMap
    /\ ghost = EmptyMap

NoPeers ==
    [scripts |-> {}, cookie_lines |-> {}, steps |-> {}, listeners |-> {},
     max_open |-> 0, overflow_checks |-> TRUE]

\* No function is taken alone
NoCall ==
    /\ call = <<>>
    /\ ret = <<>>

ConnInit ==
    /\ NoCall
    /\ input \in Inputs
    /\ \E port \in Ports : conn = NewConn(port, 0)
    /\ fed = 0
    /\ last = OutPending
    /\ ReactorStart(NoPeers)

\* One call of read_outcome with the next k bytes, while every earlier call
\* returned Pending
Feed ==
    /\ last.kind = "Pending"
    /\ \E k \in 1..(Len(input.bytes) - fed) :
          LET r == ReadOutcome(conn, Slice(input.bytes, fed, fed + k))
          IN  /\ conn' = r.conn
              /\ last' = r.out
              /\ fed' = fed + k
    /\ UNCHANGED <<input, fnVars, reactorVars>>

ConnNext == Feed

SpecConn == ConnInit /\ [][ConnNext]_vars

\* The outcome of delivering the whole input in a single call
SingleCall == ReadOutcome(NewConn(conn.local_port, 0), input.bytes).out

\* ------------------------------------------------------------------------
\* The reactor: peers, the kernel and Router::handle_connections
\* ------------------------------------------------------------------------

MapRemove(m, k) == [x \in DOMAIN m \ {k} |-> m[x]]

\* The handle accept returns: the lowest one that is not open
LowestFreeFd(open) == SetMin((5..(5 + MaxConnects)) \ open)

\* What the model remembers about the connection on a handle, until the
\* readiness wait that follows its drop
NewGhost ==
    [script |-> NoScript,      \* what the peer chose to send
     handled |-> 0,            \* calls of Router::handle for this connection
     queued |-> 0,             \* responses appended to out_buf
     late_reads |-> 0,         \* events whose bytes were read while Responding
     cause |-> "",             \* why the response was made
     resp |-> <<>>,            \* <<the Response queued>>
     resp_bytes |-> <<>>,      \* its serialization
     sent |-> <<>>,            \* the bytes send accepted, in order
     progress |-> 0,           \* when the response was queued or send last accepted bytes
     dispatched |-> FALSE,     \* whether a handler ran
     session_id |-> <<>>,      \* the session resolve_session returned
     is_new_session |-> FALSE,
     dropped |-> "",           \* why the connection was dropped
     unread |-> <<>>]          \* the received bytes not yet read when it was dropped

\* The parts of the state a handler works on
World ==
    [conns |-> conns, socks |-> socks, interest |-> interest,
     sessions |-> sessions, minted |-> minted, ghost |-> ghost]

\* Router::drop_conn: deregister, remove the entry, close the handle
DropConn(w, fd, why) ==
    [w EXCEPT !.interest = MapRemove(@, fd),
              !.conns = MapRemove(@, fd),
              !.socks = MapRemove(@, fd),
              !.ghost = IF fd \in DOMAIN w.conns
                        THEN [@ EXCEPT ![fd].dropped = why,
                                       ![fd].unread = w.socks[fd].rx]
                        ELSE @]

\* What handle_client_readable answers, with what the model records about
\* the answer
Answer(resp, store, dispatched, session_id, is_new_session, handled, cause) ==
    [resp |-> resp, sessions |-> store, dispatched |-> dispatched,
     session_id |-> session_id, is_new_session |-> is_new_session,
     handled |-> handled, cause |-> cause]

\* The answer to a request that was read in full: parse_request, then
\* Router::handle or the error response
RespondParsed(w, at, local_port, parsed) ==
    IF ~parsed.ok
    THEN Answer(ErrorResponse(V_Http11, parsed.status), w.sessions, FALSE, <<>>,
                FALSE, 0, "parse")
    ELSE Handled(Handle(routes, w.sessions, at, GenerateSessionId(w.minted + 1),
                        local_port, parsed.req))

\* The response handle_client_readable makes for an outcome that is not
\* Pending, the session store afterwards and what was done
Respond(w, out, at) ==
    IF out.kind = "Error"
    THEN Answer(ErrorResponse(V_Http11, out.status), w.sessions, FALSE, <<>>,
                FALSE, 0, "framing")
    ELSE RespondParsed(w, at, out.local_port,
                       ParseRequest(out.header_bytes, out.body_bytes))

\* The queueing step for answer a, serialized as bytes: extend out_buf, switch
\* to Responding, and ask for write readiness (registered tells whether
\* epoll_mod succeeded)
Queue(w, fd, c, a, bytes, registered) ==
    [w EXCEPT
        !.conns[fd] = [c EXCEPT !.out_buf = @ \o bytes, !.state = StResponding],
        !.sessions = a.sessions,
        !.minted = IF a.is_new_session THEN @ + 1 ELSE @,
        !.ghost[fd] = [@ EXCEPT
                          !.handled = @ + a.handled, !.queued = @ + 1,
                          !.cause = a.cause, !.resp = <<a.resp>>,
                          !.progress = c.last_activity,
                          !.resp_bytes = bytes, !.dispatched = a.dispatched,
                          !.session_id = a.session_id,
                          !.is_new_session = a.is_new_session],
        !.interest = IF registered
                     THEN [@ EXCEPT ![fd] = {"IN", "OUT", "RDHUP", "ERR", "HUP"}]
                     ELSE @]

QueueAnswer(w, fd, c, a, registered) == Queue(w, fd, c, a, ToBytes(a.resp), registered)

\* A faulty variant of the queueing step: write readiness is never asked for
QueueResponse_NoInterest(w, fd, c, out, at, mod_ok) ==
    QueueAnswer(w, fd, c, Respond(w, out, at), FALSE)

\* The part of handle_client_readable after an outcome that is not Pending:
\* queue the response, switch to Responding, ask for write readiness
QueueResponse(w, fd, c, out, at, mod_ok) ==
    QueueAnswer(w, fd, c, Respond(w, out, at), mod_ok)

\* The bytes one recv returns for handle fd: what the kernel holds for the
\* socket, up to the buffer length
RecvLen(w, fd) ==
    IF Len(w.socks[fd].rx) < RECV_BUF_LEN THEN Len(w.socks[fd].rx) ELSE RECV_BUF_LEN

Received(w, fd) == [w EXCEPT !.socks[fd].rx = SliceFrom(@, RecvLen(w, fd))]

\* The model's note that bytes were read for a connection that is Responding
NoteRead(w, fd, late) ==
    IF late THEN [w EXCEPT !.ghost[fd].late_reads = @ + 1] ELSE w

RECURSIVE HandleClientReadable(_, _, _, _)

\* Router::handle_client_readable after read_outcome returned r
AfterReadOutcome(w, fd, at, mod_ok, r) ==
    IF r.out.kind = "Pending"
    THEN HandleClientReadable([w EXCEPT !.conns[fd] = r.conn], fd, at, mod_ok)
    ELSE [w |-> QueueResponse(w, fd, r.conn, r.out, at, mod_ok),
          err |-> ~mod_ok,
          end |-> IF mod_ok THEN "queued" ELSE "mod_error"]

\* Router::handle_client_readable: the recv loop.  mod_ok tells whether
\* epoll_mod succeeds if it is called.  The result: the state afterwards,
\* whether the handler returned Err, and how the loop ended.
HandleClientReadable(w, fd, at, mod_ok) ==
    IF fd \notin DOMAIN w.socks \/ w.socks[fd].reset
    THEN [w |-> w, err |-> TRUE, end |-> "recv_error"]
    ELSE IF w.socks[fd].rx = <<>>
    THEN IF w.socks[fd].peer_closed
         THEN [w |-> w, err |-> TRUE, end |-> "eof"]
         ELSE [w |-> w, err |-> FALSE, end |-> "would_block"]
    ELSE IF fd \notin DOMAIN w.conns
    THEN [w |-> Received(w, fd), err |-> TRUE, end |-> "conn_missing"]
    ELSE AfterReadOutcome(
             NoteRead(Received(w, fd), fd, w.conns[fd].state.tag = "Responding"),
             fd, at, mod_ok,
             ReadOutcome([w.conns[fd] EXCEPT !.last_activity = at],
                         Slice(w.socks[fd].rx, 0, RecvLen(w, fd))))

\* What one call of send_nonblocking may answer
SendAnswers == {"WouldBlock", "Err", "Part", "All"}

\* The number of bytes send accepts of n, for an answer that accepts some
Accepted(answer, n) ==
    CASE answer = "Part" -> IF n < PartialSend THEN n ELSE PartialSend
      [] answer = "All" -> n
      [] answer = "Zero" -> 0

\* A faulty variant of the send loop: the buffer is emptied after a send
\* whatever part of it was accepted
RECURSIVE SendLoop_ClearsBuffer(_, _, _, _, _)
SendLoop_ClearsBuffer(c, answers, at, accepted, used) ==
    IF c.out_buf = <<>>
    THEN [conn |-> c, accepted |-> accepted, used |-> used, end |-> "drained"]
    ELSE IF answers = <<>>
    THEN [conn |-> c, accepted |-> accepted, used |-> used, end |-> "unanswered"]
    ELSE IF Head(answers) = "WouldBlock"
    THEN [conn |-> c, accepted |-> accepted, used |-> used + 1, end |-> "would_block"]
    ELSE IF Head(answers) = "Err"
    THEN [conn |-> c, accepted |-> accepted, used |-> used + 1, end |-> "send_error"]
    ELSE SendLoop_ClearsBuffer(
             [c EXCEPT !.out_buf = <<>>, !.last_activity = at],
             Tail(answers), at,
             accepted \o Slice(c.out_buf, 0, Accepted(Head(answers), Len(c.out_buf))),
             used + 1)

\* The send loop of handle_client_writable on connection c with the kernel's
\* answers: the connection afterwards, the bytes accepted, how many
\* answers were used and how the loop ended
RECURSIVE SendLoop(_, _, _, _, _)
SendLoop(c, answers, at, accepted, used) ==
    IF c.out_buf = <<>>
    THEN [conn |-> c, accepted |-> accepted, used |-> used, end |-> "drained"]
    ELSE IF answers = <<>>
    THEN [conn |-> c, accepted |-> accepted, used |-> used, end |-> "unanswered"]
    ELSE IF Head(answers) = "WouldBlock"
    THEN [conn |-> c, accepted |-> accepted, used |-> used + 1, end |-> "would_block"]
    ELSE IF Head(answers) = "Err"
    THEN [conn |-> c, accepted |-> accepted, used |-> used + 1, end |-> "send_error"]
    ELSE SendLoop(
             [c EXCEPT !.out_buf = SliceFrom(@, Accepted(Head(answers), Len(@))),
                       !.last_activity = at],
             Tail(answers), at,
             accepted \o Slice(c.out_buf, 0, Accepted(Head(answers), Len(c.out_buf))),
             used + 1)

\* A faulty variant of the end of handle_client_writable: a connection whose
\* response was sent in full stays in the table
AfterSendLoop_KeepsDrained(w, fd, s) ==
    IF s.end = "send_error"
    THEN [w |-> w, err |-> TRUE, end |-> s.end, used |-> s.used]
    ELSE [w |-> w, err |-> FALSE, end |-> s.end, used |-> s.used]

\* Router::handle_client_writable after its send loop ended as s
AfterSendLoop(w, fd, s) ==
    IF s.end = "send_error"
    THEN [w |-> w, err |-> TRUE, end |-> s.end, used |-> s.used]
    ELSE IF s.conn.out_buf = <<>>
    THEN [w |-> DropConn(w, fd, "drained"), err |-> FALSE, end |-> s.end,
          used |-> s.used]
    ELSE [w |-> w, err |-> FALSE, end |-> s.end, used |-> s.used]

\* A faulty variant of the send step: every connection of the table shares
\* the output buffer
Sent_SharedBuffer(w, fd, s) ==
    [w EXCEPT !.conns = [x \in DOMAIN w.conns |->
                            IF x = fd THEN s.conn
                            ELSE [w.conns[x] EXCEPT !.out_buf = s.conn.out_buf]],
              !.ghost[fd].sent = @ \o s.accepted,
              !.ghost[fd].progress = IF s.accepted = <<>> THEN @
                                     ELSE s.conn.last_activity]

\* The connection and the accepted bytes as the send loop left them
Sent(w, fd, s) ==
    [w EXCEPT !.conns[fd] = s.conn, !.ghost[fd].sent = @ \o s.accepted,
              !.ghost[fd].progress = IF s.accepted = <<>> THEN @
                                     ELSE s.conn.last_activity]

SentThen(w, fd, s) == AfterSendLoop(Sent(w, fd, s), fd, s)

\* Router::handle_client_writable with the kernel's answers to its sends
HandleClientWritable(w, fd, at, answers) ==
    IF fd \notin DOMAIN w.conns
    THEN [w |-> w, err |-> TRUE, end |-> "conn_missing", used |-> 0]
    ELSE SentThen(w, fd, SendLoop(w.conns[fd], answers, at, <<>>, 0))

\* handle_connections after handle_client_readable returned rd: drop the
\* connection on Err; `more` tells whether handle_client_writable is called
AfterReadable(fd, flags, rd) ==
    IF rd.err
    THEN [w |-> DropConn(rd.w, fd, rd.end), read |-> rd.end, more |-> FALSE]
    ELSE [w |-> rd.w, read |-> rd.end, more |-> "OUT" \in flags]

\* The body of the event loop of handle_connections for a client handle, up
\* to the writable part: should_drop, then handle_client_readable
ClientEventRead(w, fd, flags, at, mod_ok) ==
    IF ShouldDrop(flags)
    THEN [w |-> DropConn(w, fd, "hangup"), read |-> "", more |-> FALSE]
    ELSE IF "IN" \in flags
    THEN AfterReadable(fd, flags, HandleClientReadable(w, fd, at, mod_ok))
    ELSE [w |-> w, read |-> "", more |-> "OUT" \in flags]

\* handle_connections after handle_client_writable returned wr
AfterWritable(fd, wr) ==
    [w |-> IF wr.err THEN DropConn(wr.w, fd, wr.end) ELSE wr.w,
     write |-> wr.end, used |-> wr.used]

\* The writable part of the body: handle_client_writable and the drop that
\* follows its error
ClientEventWrite(w, fd, at, answers) ==
    AfterWritable(fd, HandleClientWritable(w, fd, at, answers))

\* The state after a handler ran
Install(w) ==
    /\ conns' = w.conns
    /\ socks' = w.socks
    /\ interest' = w.interest
    /\ sessions' = w.sessions
    /\ minted' = w.minted
    /\ ghost' = w.ghost

\* --- peers and the clock ---

\* The connections waiting to be accepted on the listening handles ls
RECURSIVE Waiting(_)
Waiting(ls) ==
    IF ls = {} THEN 0
    ELSE LET l == CHOOSE x \in ls : TRUE
         IN  backlog[l] + Waiting(ls \ {l})

\* A peer connects to a listening port that peers use (cfg.listeners), while
\* fewer than cfg.max_open connections are open or waiting to be accepted
PeerConnect ==
    /\ connects < MaxConnects
    /\ Cardinality(DOMAIN socks) + Waiting(DOMAIN backlog) < cfg.max_open
    /\ \E l \in cfg.listeners : backlog' = [backlog EXCEPT ![l] = @ + 1]
    /\ connects' = connects + 1
    /\ UNCHANGED <<connVars, fnVars, cfg, routes, conns, sessions, minted, now, ticks,
                   socks, interest, pc, ready, ghost>>

\* A peer writes the next piece of its script (choosing the script first)
PeerSend ==
    /\ \E fd \in DOMAIN socks :
          /\ ~socks[fd].peer_closed /\ ~socks[fd].reset
          /\ \E s \in (IF socks[fd].next = 1 THEN AvailableScripts
                       ELSE {ghost[fd].script}) :
                /\ socks[fd].next <= Len(s.pieces)
                /\ socks' = [socks EXCEPT ![fd].rx = @ \o s.pieces[socks[fd].next],
                                          ![fd].next = @ + 1]
                /\ ghost' = [ghost EXCEPT ![fd].script = s]
    /\ UNCHANGED <<connVars, fnVars, cfg, routes, conns, sessions, minted, now, ticks,
                   backlog, connects, interest, pc, ready>>

\* A peer shuts its side down: the server reads EOF after the pending bytes
PeerClose ==
    /\ \E fd \in DOMAIN socks :
          /\ ~socks[fd].peer_closed /\ ~socks[fd].reset
          /\ socks' = [socks EXCEPT ![fd].peer_closed = TRUE]
    /\ UNCHANGED <<connVars, fnVars, cfg, routes, conns, sessions, minted, now, ticks,
                   backlog, connects, interest, pc, ready, ghost>>

\* A peer resets the connection: an error is pending on the socket
PeerReset ==
    /\ \E fd \in DOMAIN socks :
          /\ ~socks[fd].reset
          /\ socks' = [socks EXCEPT ![fd].reset = TRUE]
    /\ UNCHANGED <<connVars, fnVars, cfg, routes, conns, sessions, minted, now, ticks,
                   backlog, connects, interest, pc, ready, ghost>>

\* Time passes
Tick ==
    /\ ticks < MaxTicks
    /\ \E d \in cfg.steps : now' = now + d
    /\ ticks' = ticks + 1
    /\ UNCHANGED <<connVars, fnVars, cfg, routes, conns, sessions, minted, socks, backlog,
                   connects, interest, pc, ready, ghost>>

\* --- Router::handle_connections ---

\* The flags the readiness facility reports for a registered client handle;
\* writable tells whether its socket accepts bytes
ReadyFlags(fd, writable) ==
    LET s == socks[fd]
    IN  (IF s.rx # <<>> \/ s.peer_closed \/ s.reset THEN {"IN"} ELSE {})
        \cup (IF s.peer_closed THEN {"RDHUP"} ELSE {})
        \cup (IF s.reset THEN {"ERR", "HUP"} ELSE {})
        \cup (IF writable /\ "OUT" \in interest[fd] THEN {"OUT"} ELSE {})

\* epoll_wait_blocking returns the ready handles, or nothing after the wait
\* interval elapsed
EpollWait ==
    /\ pc = "wait"
    /\ \E writable \in SUBSET {fd \in DOMAIN interest : "OUT" \in interest[fd]} :
          LET listeners == {l \in DOMAIN ListenFdToPort : backlog[l] > 0}
              clients == {fd \in DOMAIN interest :
                             ReadyFlags(fd, fd \in writable) # {}}
              events == [fd \in listeners \cup clients |->
                            IF fd \in listeners THEN {"IN"}
                            ELSE ReadyFlags(fd, fd \in writable)]
          IN  /\ ready' = events
              /\ IF DOMAIN events = {}
                 THEN /\ ticks < MaxTicks
                      /\ now' = now + EPOLL_WAIT_SECS
                      /\ ticks' = ticks + 1
                 ELSE UNCHANGED <<now, ticks>>
    /\ pc' = "dispatch"
    /\ ghost' = [fd \in DOMAIN ghost \cap DOMAIN socks |-> ghost[fd]]
    /\ UNCHANGED <<connVars, fnVars, cfg, routes, conns, sessions, minted, socks, backlog,
                   connects, interest>>

\* The accept loop of handle_listen_ready after `left` more connections are
\* accepted; add_ok tells whether the last epoll_add succeeds
RECURSIVE AcceptLoop(_, _, _, _, _)
AcceptLoop(w, port, left, at, add_ok) ==
    IF left = 0 THEN w
    ELSE LET fd == LowestFreeFd(DOMAIN w.socks)
             registered == left > 1 \/ add_ok
             w1 == [w EXCEPT
                      !.conns = MapInsert(@, fd, NewConn(port, at)),
                      !.socks = MapInsert(@, fd,
                                    [rx |-> <<>>, peer_closed |-> FALSE,
                                     reset |-> FALSE, next |-> 1]),
                      !.ghost = MapInsert(@, fd, NewGhost),
                      !.interest = IF registered
                                   THEN MapInsert(@, fd, {"IN", "RDHUP", "ERR", "HUP"})
                                   ELSE @]
         IN  AcceptLoop(w1, port, left - 1, at, add_ok)

\* The event of a listening handle: handle_listen_ready accepts until accept
\* would block or fails, and returns Err when epoll_add fails, which makes
\* handle_connections return before the remaining events and the sweeps
ListenEvent ==
    /\ pc = "dispatch"
    /\ \E l \in DOMAIN ready \cap DOMAIN ListenFdToPort :
       \E n \in 0..backlog[l], how \in {"would_block", "accept_error", "add_error"} :
          /\ how = "would_block" => n = backlog[l]
          /\ how = "add_error" => n > 0
          /\ Install(AcceptLoop(World, ListenFdToPort[l], n, now, how # "add_error"))
          /\ backlog' = [backlog EXCEPT ![l] = @ - n]
          /\ IF how = "add_error"
             THEN /\ pc' = "wait"
                  /\ ready' = EmptyMap
             ELSE /\ pc' = pc
                  /\ ready' = MapRemove(ready, l)
    /\ UNCHANGED <<connVars, fnVars, cfg, routes, now, ticks, connects>>

\* The writable part of a client event whose sends are answered by answers
ClientWrites(fd, answers, s) ==
    /\ s.used = Len(answers)
    /\ s.write # "unanswered"
    /\ Install(s.w)

\* A client event after should_drop and handle_client_readable left r
ClientEventThen(fd, mod_ok, r) ==
    /\ mod_ok \/ r.read = "mod_error"
    /\ IF ~r.more
       THEN Install(r.w)
       ELSE \E n \in 0..MaxSends :
            \E answers \in [1..n -> SendAnswers] :
               ClientWrites(fd, answers, ClientEventWrite(r.w, fd, now, answers))

\* The event of a client handle.  The environment decides whether epoll_mod
\* succeeds if it is called and what the sends answer.
ClientEvent ==
    /\ pc = "dispatch"
    /\ \E fd \in DOMAIN ready \ DOMAIN ListenFdToPort :
       \E mod_ok \in BOOLEAN :
          /\ ClientEventThen(fd, mod_ok,
                             ClientEventRead(World, fd, ready[fd], now, mod_ok))
          /\ ready' = MapRemove(ready, fd)
    /\ UNCHANGED <<connVars, fnVars, cfg, routes, now, ticks, backlog, connects, pc>>

\* After the last event: the idle sweep and the session sweep
RECURSIVE DropAll(_, _, _)
DropAll(w, fds, why) ==
    IF fds = {} THEN w
    ELSE LET fd == CHOOSE x \in fds : TRUE
         IN  DropAll(DropConn(w, fd, why), fds \ {fd}, why)

Sweep ==
    /\ pc = "dispatch"
    /\ DOMAIN ready = {}
    /\ LET timed_out == CollectTimedOutConns(conns, now)
           w == DropAll(World, timed_out, "idle")
       IN  Install([w EXCEPT !.sessions = CleanupExpiredSessions(@, now)])
    /\ pc' = "wait"
    /\ UNCHANGED <<connVars, fnVars, cfg, routes, now, ticks, backlog, connects, ready>>

ConnFrozen ==
    /\ input = CHOOSE i \in Inputs : i.kind = "none"
    /\ conn = NewConn(8080, 0)
    /\ fed = 0
    /\ last = OutPending

\* Peers that send well-formed and malformed requests to both ports, one
\* connection open at a time, and a clock that can pass the idle timeout
InitIO ==
    /\ NoCall
    /\ ConnFrozen
    /\ ReactorStart([scripts |-> IOScripts, cookie_lines |-> {},
                     steps |-> {EPOLL_WAIT_SECS, IDLE_TIMEOUT_SECS + 1},
                     listeners |-> {3, 4}, max_open |-> 1, overflow_checks |-> TRUE])

\* Peers that send requests with and without a session cookie, one
\* connection open at a time, and a clock that can pass the session lifetime
InitSessions ==
    /\ NoCall
    /\ ConnFrozen
    /\ ReactorStart([scripts |-> SessionScripts, cookie_lines |-> {L_GetHello},
                     steps |-> {EPOLL_WAIT_SECS, SESSION_TTL_SECS, SESSION_TTL_SECS + 1},
                     listeners |-> {3}, max_open |-> 1, overflow_checks |-> TRUE])

Next ==
    \/ PeerConnect
    \/ PeerSend
    \/ PeerClose
    \/ PeerReset
    \/ Tick
    \/ EpollWait
    \/ ListenEvent
    \/ ClientEvent
    \/ Sweep

Spec == InitIO /\ [][Next]_vars

\* Peers that send a request in two pieces, cut in the header block or in the
\* body
IdleScripts ==
    { Script("ok_get",
             <<Slice(HeaderBlock(<<L_GetHello, F_Host>>), 0, 9),
               SliceFrom(HeaderBlock(<<L_GetHello, F_Host>>), 9)>>, <<>>),
      Script("ok_post",
             <<HeaderBlock(<<L_PostUp, F_CL5>>) \o B_he, B_llo>>, <<>>) }

\* One connection open at a time on one port, and a clock that can stand at
\* the idle timeout exactly and beyond it
InitIdle ==
    /\ NoCall
    /\ ConnFrozen
    /\ ReactorStart([scripts |-> IdleScripts, cookie_lines |-> {},
                     steps |-> {EPOLL_WAIT_SECS, IDLE_TIMEOUT_SECS},
                     listeners |-> {3}, max_open |-> 1, overflow_checks |-> TRUE])

SpecIdle == InitIdle /\ [][Next]_vars

\* Peers that send a whole request at once
PairScripts ==
    { Script("ok_get", <<HeaderBlock(<<L_GetHello>>)>>, <<>>) }

\* Two connections open at a time on one port, with peers that keep their
\* side open; the clock moves only when epoll_wait times out
InitPair ==
    /\ NoCall
    /\ ConnFrozen
    /\ ReactorStart([scripts |-> PairScripts, cookie_lines |-> {}, steps |-> {},
                     listeners |-> {3}, max_open |-> 2, overflow_checks |-> TRUE])

PairNext ==
    \/ PeerConnect
    \/ PeerSend
    \/ EpollWait
    \/ ListenEvent
    \/ ClientEvent
    \/ Sweep

SpecPair == InitPair /\ [][PairNext]_vars

SpecSessions == InitSessions /\ [][Next]_vars

\* ------------------------------------------------------------------------
\* Routing alone: Router::add_route, then one call of Router::handle
\* ------------------------------------------------------------------------

\* How many routes are registered at most
MaxRoutes == 2

\* "/:x"
P_x ==
    <<"/",":","x">>

\* "/a/b"
P_ab ==
    <<"/","a","/","b">>

\* A router without peers, connections and sessions, holding the table
RouterAlone(table) ==
    /\ ConnFrozen
    /\ cfg = NoPeers
    /\ routes = table
    /\ conns = EmptyMap
    /\ sessions = EmptyMap
    /\ minted = 0
    /\ now = 0
    /\ ticks = 0
    /\ socks = EmptyMap
    /\ backlog = [l \in DOMAIN ListenFdToPort |-> 0]
    /\ connects = 0
    /\ interest = EmptyMap
    /\ pc = "wait"
    /\ ready = EmptyMap
    /\ ghost = EmptyMap

RouteInit ==
    /\ NoCall
    /\ RouterAlone(EmptyMap)

\* The routes of a port, in registration order
RoutesOn(port) == IF port \in DOMAIN routes THEN routes[port] ELSE <<>>

\* How many routes the table holds
RECURSIVE CountRoutes(_, _)
CountRoutes(table, ports) ==
    IF ports = {} THEN 0
    ELSE LET port == CHOOSE x \in ports : TRUE
         IN  Len(table[port]) + CountRoutes(table, ports \ {port})

RoutePatterns == {P_hello, P_x}

RouteMethodLists ==
    { <<MethodFromStr(M_GET)>>, <<MethodFromStr(M_POST)>>,
      <<MethodFromStr(M_GET), MethodFromStr(M_DELETE)>> }

\* The requests handed to Router::handle
RouteRequests ==
    { [method |-> MethodFromStr(m), path |-> path, query |-> <<>>,
       version |-> V_Http11, headers |-> EmptyMap, body |-> <<>>] :
        m \in {M_GET, M_POST, M_DELETE}, path \in {P_hello, P_up, P_ab} }

\* main registers one more route; its handler answers with the number of the
\* registration
RegisterRoute ==
    /\ ret = <<>>
    /\ CountRoutes(routes, DOMAIN routes) < MaxRoutes
    /\ \E port \in Ports, pattern \in RoutePatterns, methods \in RouteMethodLists :
          routes' = AddRoute(routes, port, pattern, methods,
                             ToDec(CountRoutes(routes, DOMAIN routes) + 1))
    /\ UNCHANGED <<connVars, fnVars, cfg, conns, sessions, minted, now, ticks, socks,
                   backlog, connects, interest, pc, ready, ghost>>

\* Router::handle returned h for the request req that arrived on local_port
Dispatched(local_port, req, h) ==
    /\ call' = [local_port |-> local_port, req |-> req]
    /\ ret' = <<h>>
    /\ sessions' = h.sessions
    /\ minted' = IF h.is_new_session THEN minted + 1 ELSE minted

\* One call of Router::handle
Dispatch ==
    /\ ret = <<>>
    /\ \E local_port \in Ports, req \in RouteRequests :
          Dispatched(local_port, req,
                     Handle(routes, sessions, now, GenerateSessionId(minted + 1),
                            local_port, req))
    /\ UNCHANGED <<connVars, cfg, routes, conns, now, ticks, socks, backlog,
                   connects, interest, pc, ready, ghost>>

RouteNext == RegisterRoute \/ Dispatch

SpecRoute == RouteInit /\ [][RouteNext]_vars

\* ------------------------------------------------------------------------
\* match_pattern alone: one call with a pattern and a request path
\* ------------------------------------------------------------------------

\* "/files/:name"
P_files_name ==
    <<"/","f","i","l","e","s","/",":","n","a","m","e">>


\* "/files/:a/x"
P_files_a_x ==
    <<"/","f","i","l","e","s","/",":","a","/","x">>


\* "/"
P_root ==
    <<"/">>


\* "/:"
P_colon ==
    <<"/",":">>


\* "/:a/:a"
P_a_a ==
    <<"/",":","a","/",":","a">>


\* "hello/"
P_hello_slash ==
    <<"h","e","l","l","o","/">>


\* "/files/report.txt"
P_files_report ==
    <<"/","f","i","l","e","s","/","r","e","p","o","r","t",".","t","x","t">>


\* "/a/b/c"
P_abc ==
    <<"/","a","/","b","/","c">>


\* "/files//x"
P_files__x ==
    <<"/","f","i","l","e","s","/","/","x">>


\* "/b/b"
P_b_b ==
    <<"/","b","/","b">>


\* "/files/"
P_files ==
    <<"/","f","i","l","e","s","/">>


\* The empty text
P_empty ==
    <<>>


MatchPatterns ==
    { P_files_name, P_ab, P_files_a_x, P_root, P_colon, P_a_a, P_hello, P_hello_slash,
      P_x, P_empty }

MatchPaths ==
    { P_files_report, P_ab, P_abc, P_files__x, P_root, P_colon, P_hello, P_b_b,
      P_files, P_up }

MatchInit ==
    /\ call \in [pattern : MatchPatterns, req_path : MatchPaths]
    /\ ret = <<>>
    /\ RouterAlone(EmptyMap)

\* The call of match_pattern
Match ==
    /\ ret = <<>>
    /\ ret' = <<MatchPattern(call.pattern, call.req_path)>>
    /\ UNCHANGED <<connVars, call, reactorVars>>

SpecMatch == MatchInit /\ [][Match]_vars

\* ------------------------------------------------------------------------
\* Parsing alone: one request received whole on a fresh connection, up to the
\* response handle_client_readable chooses for it
\* ------------------------------------------------------------------------

\* "HTTP/2.0"
V_Http20 ==
    <<"H","T","T","P","/","2",".","0">>


\* "http/1.1"
V_lower ==
    <<"h","t","t","p","/","1",".","1">>


\* "BREW"
M_BREW ==
    <<"B","R","E","W">>


\* "extra"
W_extra ==
    <<"e","x","t","r","a">>


\* The tokens of a request line, written one after the other with sep between
RECURSIVE JoinTokens(_, _)
JoinTokens(tokens, sep) ==
    IF tokens = <<>> THEN <<>>
    ELSE IF Len(tokens) = 1 THEN tokens[1]
    ELSE tokens[1] \o sep \o JoinTokens(Tail(tokens), sep)

RequestLineTokens ==
    { <<M_GET, P_hello, V_Http11>>, <<M_POST, P_up, V_Http11>>,
      <<M_DELETE, P_hello, V_Http10>>, <<M_BREW, P_hello, V_Http11>>,
      <<M_GET, P_hello, V_Http20>>, <<M_POST, P_up, V_Http20>>,
      <<M_BREW, P_hello, V_lower>>,
      <<M_GET, P_hello>>, <<M_POST>>, <<>>,
      <<M_GET, P_hello, V_Http11, W_extra>>, <<M_POST, P_up, V_Http20, W_extra>> }

TokenSeparators == { <<" ">>, <<"HT", " ">> }

\* How the body is framed: the header lines and the bytes after the header
\* block
BodyFramings ==
    { [kind |-> "none", lines |-> <<>>, after |-> <<>>],
      [kind |-> "length_zero", lines |-> <<F_CL0>>, after |-> <<>>],
      [kind |-> "length", lines |-> <<F_CL5>>, after |-> B_hello],
      [kind |-> "chunked_zero", lines |-> <<F_TE>>,
       after |-> T_0 \o CRLF \o CRLF \o CRLF],
      [kind |-> "chunked_zero_short", lines |-> <<F_TE>>,
       after |-> T_0 \o CRLF \o CRLF],
      [kind |-> "chunked", lines |-> <<F_TE>>,
       after |-> T_5 \o CRLF \o B_hello \o CRLF \o T_0 \o CRLF \o CRLF \o CRLF] }

ParseCalls ==
    { [tokens |-> tokens, framing |-> framing.kind, local_port |-> 8080,
       bytes |-> HeaderBlock(<<JoinTokens(tokens, sep)>> \o framing.lines)
                     \o framing.after] :
        tokens \in RequestLineTokens, sep \in TokenSeparators,
        framing \in BodyFramings }

ParseInit ==
    /\ call \in ParseCalls
    /\ ret = <<>>
    /\ RouterAlone(StartupRoutes)

\* parse_request for an outcome that is Ready
Parsed(out) ==
    IF out.kind = "Ready" THEN ParseRequest(out.header_bytes, out.body_bytes)
    ELSE ParseErr("", "")

\* The response for an outcome; none while the outcome is Pending
Responded(out) ==
    IF out.kind = "Pending"
    THEN Answer(<<>>, sessions, FALSE, <<>>, FALSE, 0, "pending")
    ELSE Respond(World, out, now)

\* handle_client_readable chose the answer a for the outcome out
ParsedThen(out, a) ==
    /\ ret' = <<[out |-> out, parsed |-> Parsed(out), answer |-> a]>>
    /\ sessions' = a.sessions
    /\ minted' = IF a.is_new_session THEN minted + 1 ELSE minted

ReadThen(out) == ParsedThen(out, Responded(out))

\* The bytes arrive in one read on a fresh connection
ReadAndParse ==
    /\ ret = <<>>
    /\ ReadThen(ReadOutcome(NewConn(call.local_port, now), call.bytes).out)
    /\ UNCHANGED <<connVars, call, cfg, routes, conns, now, ticks, socks, backlog,
                   connects, interest, pc, ready, ghost>>

SpecParse == ParseInit /\ [][ReadAndParse]_vars

\* ------------------------------------------------------------------------
\* Properties of request assembly (checked under SpecConn)
\* ------------------------------------------------------------------------

\* C1: however the input is cut into non-empty fragments, the first outcome
\* that is not Pending equals the outcome of delivering the whole input in one
\* call (same header bytes, body bytes and port, or same error), and when the
\* whole input was delivered with every call Pending, the single call is
\* Pending too.
C1_FragmentationIndependent ==
    /\ last.kind # "Pending" => last = SingleCall
    /\ (fed = Len(input.bytes) /\ last.kind = "Pending")
          => SingleCall.kind = "Pending"

\* C1 witness: a request completed by a call that delivered a later fragment
\* (the header block and a part of the body had arrived in earlier calls)
C1_Witness ==
    /\ last.kind = "Ready"
    /\ input.kind = "cl"
    /\ conn.state.tag = "ReadingBodyContentLength"
    /\ fed = input.hlen + input.declared
    /\ fed < Len(input.bytes)

\* C2 (as claimed): a chunked request whose body is B cut into any chunks and
\* ended by the zero-size chunk and its empty line (0 CRLF CRLF) is reported
\* Ready with body exactly B once it was delivered whole, the body the same B
\* gets under Content-Length framing.
C2_ChunkedEqualsContentLength ==
    (input.kind = "chunked_std" /\ fed = Len(input.bytes))
        => /\ last.kind = "Ready"
           /\ last.body_bytes = input.body

\* C3: with Content-Length L > 0, every call is Pending while fewer than
\* header_end + L bytes are buffered, the first call with at least that many
\* is Ready, and its body is exactly the L bytes after the header block.
C3_ContentLengthExact ==
    (input.kind \in {"cl", "cl_short"} /\ fed > 0)
        => LET total == input.hlen + input.declared
           IN  /\ input.declared > 0
               /\ Len(conn.in_buf) = fed
               /\ fed < total => last.kind = "Pending"
               /\ fed >= total =>
                     /\ last.kind = "Ready"
                     /\ last.header_bytes = Slice(input.bytes, 0, input.hlen)
                     /\ last.body_bytes = Slice(input.bytes, input.hlen, total)
                     /\ last.body_bytes = input.body

\* C3 witness: Ready with more bytes buffered than the declared body
C3_Witness ==
    /\ input.kind = "cl"
    /\ last.kind = "Ready"
    /\ Len(conn.in_buf) > input.hlen + input.declared
    /\ last.body_bytes = B_hello

\* C4: when the header block has a duplicate Content-Length, a duplicate
\* Transfer-Encoding, both headers, a coding other than chunked, an empty
\* Transfer-Encoding or a Content-Length that is no non-negative integer, the
\* call that first sees the end of the headers returns Error with status 400,
\* and the connection never enters a body-reading state.
C4_BadFramingRejected ==
    input.kind \in BadFramingKinds
        => /\ conn.state.tag = "ReadingHeaders"
           /\ fed < input.hlen => last.kind = "Pending"
           /\ fed >= input.hlen =>
                 /\ last.kind = "Error"
                 /\ StatusCodeOf(last.status) = 400

\* C4 witness: both framing headers, rejected while body bytes were buffered
C4_Witness ==
    /\ input.kind = "both"
    /\ last.kind = "Error"
    /\ Len(conn.in_buf) > input.hlen

\* ------------------------------------------------------------------------
\* Properties of the reactor (checked under Spec and SpecSessions)
\* ------------------------------------------------------------------------

IsPrefix(p, s) == Len(p) <= Len(s) /\ Slice(s, 0, Len(p)) = p

IsSuffix(p, s) == Len(p) <= Len(s) /\ SliceFrom(s, Len(s) - Len(p)) = p

\* The Set-Cookie header of the response queued on a connection: <<>> or <<value>>
SetCookieOf(g) == HeaderGet(g.resp[1].headers, N_SetCookie)

\* A step in which Router::handle ran for the request of handle fd and
\* reached a handler
Dispatches(fd) ==
    /\ fd \in DOMAIN ghost /\ fd \in DOMAIN ghost'
    /\ ghost'[fd].handled = ghost[fd].handled + 1
    /\ ghost'[fd].dispatched

\* C5: at most one request is handled per connection.  Once a connection is
\* Responding, no step handles a request for it or queues anything for it
\* again, whatever bytes arrive (every later read_outcome is Pending); while
\* it stays in the table its state stays Responding and its out_buf only
\* loses bytes at the front.
C5_RespondingIgnoresInput ==
    [][/\ \A fd \in DOMAIN conns :
             conns[fd].state.tag = "Responding"
                => /\ ghost'[fd].handled = ghost[fd].handled
                   /\ ghost'[fd].queued = ghost[fd].queued
                   /\ fd \in DOMAIN conns'
                         => /\ conns'[fd].state.tag = "Responding"
                            /\ IsSuffix(conns'[fd].out_buf, conns[fd].out_buf)
       /\ \A fd \in DOMAIN ghost' :
             ghost'[fd].handled <= 1 /\ ghost'[fd].queued <= 1]_vars

\* C5 witness: a connection that read further bytes (a second request) after
\* its response was queued, and is still Responding with one response
C5_Witness ==
    \E fd \in DOMAIN conns :
       /\ conns[fd].state.tag = "Responding"
       /\ ghost[fd].script.kind = "ok_post"
       /\ ghost[fd].late_reads > 0
       /\ ghost[fd].queued = 1
       /\ Len(conns[fd].in_buf) = Len(ghost[fd].script.pieces[1])
                                     + Len(ghost[fd].script.pieces[2])

\* C6: the bytes send accepted for a connection, in order, are a prefix of the
\* serialized response and out_buf is exactly the rest; a connection stays in
\* the table while a part of the response is unsent (would-block keeps it),
\* it is dropped in the event in which out_buf becomes empty, and a drop
\* before the whole response was accepted is due to an error, a hang-up or
\* the idle timeout.
C6_PartialSends ==
    \A fd \in DOMAIN ghost :
       LET g == ghost[fd]
       IN  g.queued = 1
              => /\ g.resp_bytes = ToBytes(g.resp[1])
                 /\ IsPrefix(g.sent, g.resp_bytes)
                 /\ fd \in DOMAIN conns
                       => /\ g.sent \o conns[fd].out_buf = g.resp_bytes
                          /\ conns[fd].out_buf # <<>>
                          /\ g.dropped = ""
                 /\ fd \notin DOMAIN conns
                       => /\ g.dropped = "drained" <=> g.sent = g.resp_bytes
                          /\ g.dropped \in {"drained", "hangup", "recv_error", "eof",
                                            "mod_error", "send_error", "idle"}

\* C6 witness: a connection kept in the table after a part of its response
\* was accepted
C6_Witness ==
    \E fd \in DOMAIN conns :
       /\ ghost[fd].queued = 1
       /\ ghost[fd].sent # <<>>
       /\ conns[fd].out_buf # <<>>
       /\ Len(ghost[fd].sent) = PartialSend

\* A connection whose request ended in a protocol error
ProtocolError(g) == g.cause \in {"framing", "parse"}

\* Every protocol error is answered: one response with status 400 or 505 is
\* queued, and a connection still in the table is Responding with write
\* interest and holds the unsent rest of that response
ProtocolErrorAnswered ==
    \A fd \in DOMAIN ghost :
       LET g == ghost[fd]
           all_read == /\ fd \in DOMAIN conns
                       /\ socks[fd].next > Len(g.script.pieces)
                       /\ socks[fd].rx = <<>>
       IN  /\ (g.script.kind \in ProtocolErrorKinds /\ all_read)
                 => g.queued = 1 /\ ProtocolError(g)
           /\ ProtocolError(g)
                 => /\ g.queued = 1
                    /\ StatusCodeOf(g.resp[1].status) \in {400, 505}
                    /\ g.resp_bytes = ToBytes(g.resp[1])
                    /\ fd \in DOMAIN conns
                          => /\ conns[fd].state.tag = "Responding"
                             /\ "OUT" \in interest[fd]
                             /\ g.sent \o conns[fd].out_buf = g.resp_bytes

\* C7 (as claimed): every protocol error (framing-header error, bad chunk
\* syntax, malformed request line, unsupported version, POST with empty body)
\* gets exactly one response with status 400 or 505 queued, the state set to
\* Responding and write interest registered.
C7_ErrorAlwaysRegistered ==
    /\ ProtocolErrorAnswered
    /\ \A fd \in DOMAIN ghost :
          ProtocolError(ghost[fd]) => ghost[fd].dropped # "mod_error"

\* C7 (amended): the same, except that when registering write interest fails
\* the connection is dropped in that event, with the response queued and no
\* byte of it sent.
C7_ErrorAnsweredUnlessModFails ==
    /\ ProtocolErrorAnswered
    /\ \A fd \in DOMAIN ghost :
          (ProtocolError(ghost[fd]) /\ ghost[fd].dropped = "mod_error")
             => fd \notin DOMAIN conns /\ ghost[fd].sent = <<>>

\* C7 witness: an unsupported version answered 505, the connection Responding
\* with write interest
C7_Witness ==
    \E fd \in DOMAIN conns :
       /\ ghost[fd].script.kind = "bad_version"
       /\ ghost[fd].cause = "parse"
       /\ StatusCodeOf(ghost[fd].resp[1].status) = 505
       /\ conns[fd].state.tag = "Responding"
       /\ "OUT" \in interest[fd]

\* C8: a dispatched request whose sid cookie names a session of the store
\* reuses it: visits + 1, last_seen = the time of the request, nothing
\* inserted, is_new_session false, no Set-Cookie in the response.  A
\* dispatched request without a sid cookie inserts exactly one session with
\* visits 1 and is_new_session true.
C8_SessionReuse ==
    [][\A fd \in DOMAIN ghost :
          Dispatches(fd)
             => LET cookie == ghost[fd].script.cookie
                    g == ghost'[fd]
                IN  /\ (cookie # <<>> /\ cookie[1] \in DOMAIN sessions)
                          => /\ sessions' = [sessions EXCEPT
                                                ![cookie[1]].visits = @ + 1,
                                                ![cookie[1]].last_seen = now]
                             /\ ~g.is_new_session
                             /\ g.session_id = cookie
                             /\ SetCookieOf(g) = <<>>
                    /\ cookie = <<>>
                          => /\ g.is_new_session
                             /\ \E id \in DOMAIN sessions' \ DOMAIN sessions :
                                   /\ DOMAIN sessions' = DOMAIN sessions \cup {id}
                                   /\ g.session_id = <<id>>
                                   /\ sessions'[id].visits = 1
                                   /\ \A s \in DOMAIN sessions :
                                         sessions'[s] = sessions[s]]_vars

\* C8 witness: a request answered from a session on its second visit
C8_Witness ==
    \E fd \in DOMAIN ghost :
       /\ ghost[fd].dispatched
       /\ ~ghost[fd].is_new_session
       /\ ghost[fd].script.cookie = ghost[fd].session_id
       /\ ghost[fd].session_id[1] \in DOMAIN sessions
       /\ sessions[ghost[fd].session_id[1]].visits = 2

\* C9 (as claimed): a dispatched request presenting the id of a session whose
\* last_seen lies more than the session lifetime back never reuses that
\* session: it gets a newly minted one with another id, also when the sweep
\* has not yet removed the old session.
C9_ExpiredNeverReused ==
    [][\A fd \in DOMAIN ghost :
          LET cookie == ghost[fd].script.cookie
          IN  (/\ Dispatches(fd)
               /\ cookie # <<>>
               /\ cookie[1] \in DOMAIN sessions
               /\ DurationSince(now, sessions[cookie[1]].last_seen) > SESSION_TTL_SECS)
                 => /\ ghost'[fd].is_new_session
                    /\ ghost'[fd].session_id # cookie]_vars

\* C10: the response queued for a request has a Set-Cookie header exactly
\* when the request was dispatched and a session was minted for it; the
\* header is sid=<id>; Path=/; HttpOnly; SameSite=Lax with the id of the
\* session this step inserted into the store.
C10_SetCookieIffMinted ==
    [][\A fd \in DOMAIN ghost :
          (fd \in DOMAIN ghost' /\ ghost'[fd].queued = ghost[fd].queued + 1)
             => LET g == ghost'[fd]
                IN  /\ SetCookieOf(g) # <<>> <=> (g.dispatched /\ g.is_new_session)
                    /\ SetCookieOf(g) # <<>>
                          => /\ g.session_id # <<>>
                             /\ SetCookieOf(g) =
                                   <<CookiePrefix \o g.session_id[1] \o CookieSuffix>>
                             /\ g.session_id[1] \notin DOMAIN sessions
                             /\ g.session_id[1] \in DOMAIN sessions'
                             /\ sessions'[g.session_id[1]].id = g.session_id[1]]_vars

\* C10 witness: a response that carries the cookie of the session minted for
\* its request
C10_Witness ==
    \E fd \in DOMAIN conns :
       /\ ghost[fd].queued = 1
       /\ ghost[fd].dispatched
       /\ ghost[fd].is_new_session
       /\ SetCookieOf(ghost[fd]) =
             <<CookiePrefix \o GenerateSessionId(minted) \o CookieSuffix>>
       /\ GenerateSessionId(minted) \in DOMAIN sessions

\* ------------------------------------------------------------------------
\* Properties of routing (checked under SpecRoute)
\* ------------------------------------------------------------------------

\* Route i of the port matches the path of the request
PathMatches(port, i, req) == MatchPattern(RoutesOn(port)[i].pattern, req.path) # <<>>

\* Route i of the port matches the path and lists the method of the request
FullyMatches(port, i, req) ==
    /\ PathMatches(port, i, req)
    /\ \E k \in 1..Len(RoutesOn(port)[i].methods) :
          RoutesOn(port)[i].methods[k] = req.method

RouteIndexes(port) == 1..Len(RoutesOn(port))

\* C11: route tables are per port.  A port without routes answers 404 to
\* every request, and a request whose path no route of the arrival port
\* matches is answered 404 without a handler, whatever is registered on the
\* other ports (in particular a route there that matches it fully).
C11_TablesPerPort ==
    ret # <<>> =>
        /\ call.local_port \notin DOMAIN routes =>
              /\ ret[1].resp.status = "NotFound"
              /\ ~ret[1].dispatched
        /\ (\A i \in RouteIndexes(call.local_port) :
                ~PathMatches(call.local_port, i, call.req)) =>
              /\ ret[1].resp = ErrorResponse(call.req.version, "NotFound")
              /\ ~ret[1].dispatched

\* C11 witness: a request that a route of the other port matches fully was
\* answered 404 on a port that has routes of its own
C11_Witness ==
    /\ ret # <<>>
    /\ call.local_port \in DOMAIN routes
    /\ \E other \in DOMAIN routes \ {call.local_port} :
          \E i \in RouteIndexes(other) : FullyMatches(other, i, call.req)
    /\ ret[1].resp.status = "NotFound"
    /\ ~ret[1].dispatched

\* C12: on a port that has routes, the answer is 405 exactly when no route
\* matches path and method and at least one route matches the path, and 404
\* exactly when no route matches the path; in both cases no handler runs (no
\* session is resolved and the answer is the error page).
C12_MethodNotAllowedOrNotFound ==
    (ret # <<>> /\ call.local_port \in DOMAIN routes) =>
        LET some_path == \E i \in RouteIndexes(call.local_port) :
                            PathMatches(call.local_port, i, call.req)
            some_full == \E i \in RouteIndexes(call.local_port) :
                            FullyMatches(call.local_port, i, call.req)
        IN  /\ ret[1].resp.status = "MethodNotAllowed" <=> (~some_full /\ some_path)
            /\ ret[1].resp.status = "NotFound" <=> ~some_path
            /\ ret[1].resp.status \in {"MethodNotAllowed", "NotFound"} =>
                  /\ ~ret[1].dispatched
                  /\ ret[1].resp = ErrorResponse(call.req.version, ret[1].resp.status)
                  /\ sessions = EmptyMap
                  /\ ret[1].session_id = <<>>

\* C12 witness: a request whose path a route matches, but with a method no
\* matching route lists, was answered 405
C12_Witness ==
    /\ ret # <<>>
    /\ call.local_port \in DOMAIN routes
    /\ \E i \in RouteIndexes(call.local_port) : PathMatches(call.local_port, i, call.req)
    /\ ret[1].resp.status = "MethodNotAllowed"
    /\ ~ret[1].dispatched

\* C13: a request is dispatched exactly when some route of its port matches
\* path and method, and then to the first such route in registration order:
\* an earlier route that matches only the path does not stop the scan, and a
\* later route that matches fully is never chosen over an earlier one.
C13_FirstFullMatch ==
    ret # <<>> =>
        LET full == {i \in RouteIndexes(call.local_port) :
                        FullyMatches(call.local_port, i, call.req)}
        IN  /\ ret[1].dispatched <=> full # {}
            /\ full # {} =>
                  /\ ret[1].resp.status = "Ok"
                  /\ ret[1].resp.body = RoutesOn(call.local_port)[SetMin(full)].handler

\* C13 witness: the first route matched only the path, the second matched
\* fully, and the handler of the second answered
C13_Witness ==
    /\ ret # <<>>
    /\ Len(RoutesOn(call.local_port)) >= 2
    /\ PathMatches(call.local_port, 1, call.req)
    /\ ~FullyMatches(call.local_port, 1, call.req)
    /\ FullyMatches(call.local_port, 2, call.req)
    /\ ret[1].dispatched
    /\ ret[1].resp.body = RoutesOn(call.local_port)[2].handler

\* C13 second case: two routes match fully and the earlier one answered
C13_EarlierWins ==
    /\ ret # <<>>
    /\ Len(RoutesOn(call.local_port)) >= 2
    /\ FullyMatches(call.local_port, 1, call.req)
    /\ FullyMatches(call.local_port, 2, call.req)
    /\ ret[1].resp.body = RoutesOn(call.local_port)[1].handler

\* ------------------------------------------------------------------------
\* Properties of match_pattern (checked under SpecMatch)
\* ------------------------------------------------------------------------

\* A pattern segment written :name
IsCapture(seg) == Len(seg) >= 2 /\ Head(seg) = ":"

\* The positions of the captures called name in the segments p_segs
CapturesOf(p_segs, name) ==
    {i \in 1..Len(p_segs) : IsCapture(p_segs[i]) /\ Tail(p_segs[i]) = name}

CaptureNames(p_segs) == {Tail(p_segs[i]) : i \in {k \in 1..Len(p_segs) : IsCapture(p_segs[k])}}

\* The segment lists have the same length and every segment of the pattern
\* that is not a capture equals the segment of the path at its position
SegmentsAgree(p_segs, r_segs) ==
    /\ Len(p_segs) = Len(r_segs)
    /\ \A i \in 1..Len(p_segs) : ~IsCapture(p_segs[i]) => p_segs[i] = r_segs[i]

SetMax(S) == CHOOSE x \in S : \A y \in S : y <= x

\* C14 as stated: match_pattern succeeds exactly when the trimmed and split
\* pattern and path have the same number of segments and every literal
\* segment of the pattern equals the segment of the path at its position, and
\* then every capture is bound to the segment of the path at its position.
C14_MatchIffSegmentsAgree ==
    ret # <<>> =>
        LET p_segs == PathSegments(call.pattern)
            r_segs == PathSegments(call.req_path)
        IN  /\ ret[1] # <<>> <=> SegmentsAgree(p_segs, r_segs)
            /\ ret[1] # <<>> =>
                  \A i \in 1..Len(p_segs) :
                      IsCapture(p_segs[i]) =>
                          /\ Tail(p_segs[i]) \in DOMAIN ret[1][1]
                          /\ ret[1][1][Tail(p_segs[i])] = r_segs[i]

\* C14 amended: match_pattern succeeds exactly when the segment lists have
\* the same length, no segment of the pattern is a bare ':' (a capture without
\* a name), and every literal segment of the pattern equals the segment of
\* the path at its position; then the bindings are exactly the capture names,
\* each bound to the segment of the path at the position of the last capture
\* of that name.
C14_MatchIffAgreeAndNamed ==
    ret # <<>> =>
        LET p_segs == PathSegments(call.pattern)
            r_segs == PathSegments(call.req_path)
        IN  /\ ret[1] # <<>> <=>
                  /\ SegmentsAgree(p_segs, r_segs)
                  /\ \A i \in 1..Len(p_segs) : p_segs[i] # <<":">>
            /\ ret[1] # <<>> =>
                  /\ DOMAIN ret[1][1] = CaptureNames(p_segs)
                  /\ \A name \in CaptureNames(p_segs) :
                        ret[1][1][name] = r_segs[SetMax(CapturesOf(p_segs, name))]

\* C14 witness: /files/:name matched /files/report.txt and bound name to
\* report.txt
C14_Witness ==
    /\ ret # <<>>
    /\ call.pattern = P_files_name
    /\ call.req_path = P_files_report
    /\ ret[1] # <<>>
    /\ ret[1][1] = MapInsert(EmptyMap, <<"n","a","m","e">>,
                             <<"r","e","p","o","r","t",".","t","x","t">>)

\* C15 as stated: a capture matches only a non-empty segment, so a successful
\* match never binds a name to the empty string.
C15_CaptureNeverEmpty ==
    (ret # <<>> /\ ret[1] # <<>>) =>
        /\ \A name \in DOMAIN ret[1][1] : ret[1][1][name] # <<>>
        /\ \A i \in 1..Len(PathSegments(call.pattern)) :
              IsCapture(PathSegments(call.pattern)[i]) =>
                  PathSegments(call.req_path)[i] # <<>>

\* ------------------------------------------------------------------------
\* Properties of parse_request (checked under SpecParse)
\* ------------------------------------------------------------------------

\* The request was read in full and handed to parse_request
WasParsed == ret # <<>> /\ ret[1].out.kind = "Ready"

\* C16: parse_request accepts a request line only if it has exactly three
\* whitespace-separated tokens, and answers 400 otherwise; a request line of
\* three tokens whose version is neither HTTP/1.1 nor HTTP/1.0 gets 505, not
\* 400, whatever the method and the body.
C16_RequestLineTokens ==
    WasParsed =>
        /\ ret[1].parsed.ok => Len(call.tokens) = 3
        /\ Len(call.tokens) # 3 =>
              /\ ~ret[1].parsed.ok
              /\ ret[1].parsed.status = "BadRequest"
              /\ ret[1].answer.resp = ErrorResponse(V_Http11, "BadRequest")
        /\ (Len(call.tokens) = 3 /\ call.tokens[3] \notin {V_Http11, V_Http10}) =>
              /\ ~ret[1].parsed.ok
              /\ ret[1].parsed.status = "VersionNotSupported"
              /\ ret[1].answer.resp = ErrorResponse(V_Http11, "VersionNotSupported")

\* C16 witness: a POST with an empty body and version HTTP/2.0 was answered
\* 505
C16_Witness ==
    /\ WasParsed
    /\ call.tokens = <<M_POST, P_up, V_Http20>>
    /\ ret[1].out.body_bytes = <<>>
    /\ ret[1].parsed.status = "VersionNotSupported"
    /\ StatusCodeOf(ret[1].answer.resp.status) = 505

\* A request without framing header, with Content-Length: 0, or with a chunked
\* body of zero bytes is read in full with an empty body
EmptyBodies ==
    (ret # <<>> /\ call.framing \in {"none", "length_zero", "chunked_zero"}) =>
        /\ ret[1].out.kind = "Ready"
        /\ ret[1].out.body_bytes = <<>>

\* C17: a POST whose reassembled body is empty (no framing header,
\* Content-Length: 0, or a chunked body that decodes to nothing) is rejected
\* by parse_request with 400 and no handler runs; a request with another
\* method and an empty body is accepted and reaches Router::handle.
C17_PostNeedsBody ==
    /\ EmptyBodies
    /\ (/\ WasParsed
        /\ Len(call.tokens) = 3
        /\ call.tokens[3] \in {V_Http11, V_Http10}
        /\ ret[1].out.body_bytes = <<>>) =>
            IF call.tokens[1] = M_POST
            THEN /\ ~ret[1].parsed.ok
                 /\ ret[1].parsed.status = "BadRequest"
                 /\ ret[1].answer.resp = ErrorResponse(V_Http11, "BadRequest")
                 /\ ret[1].answer.handled = 0
                 /\ ~ret[1].answer.dispatched
            ELSE /\ ret[1].parsed.ok
                 /\ ret[1].parsed.req.body = <<>>
                 /\ ret[1].answer.handled = 1

\* C17 witness: a POST with a chunked body of zero bytes was answered 400
\* without reaching Router::handle
C17_Witness ==
    /\ WasParsed
    /\ call.tokens = <<M_POST, P_up, V_Http11>>
    /\ call.framing = "chunked_zero"
    /\ ret[1].out.body_bytes = <<>>
    /\ StatusCodeOf(ret[1].answer.resp.status) = 400
    /\ ret[1].answer.handled = 0

\* ------------------------------------------------------------------------
\* Properties of the event loop (checked under Spec)
\* ------------------------------------------------------------------------

\* This step is the body of the event loop for the client handle fd
ClientEventOf(fd) ==
    /\ pc = "dispatch"
    /\ pc' = "dispatch"
    /\ fd \in DOMAIN ready \ DOMAIN ListenFdToPort
    /\ fd \notin DOMAIN ready'

\* C18: when the event of a client handle carries the error, hang-up or
\* peer-closed flag, the connection is dropped (deregistered, removed from the
\* table, handle closed) and neither the read path nor the write path runs
\* for that event: nothing is received, handled, queued or sent, also when the
\* readable or writable flag is set as well and a request or an unsent
\* response is pending.
C18_HangupDropsWithoutIO ==
    [][\A fd \in DOMAIN ready :
          (ClientEventOf(fd) /\ ready[fd] \cap {"ERR", "HUP", "RDHUP"} # {}) =>
              /\ fd \notin DOMAIN conns'
              /\ fd \notin DOMAIN socks'
              /\ fd \notin DOMAIN interest'
              /\ ghost'[fd] = [ghost[fd] EXCEPT !.dropped = "hangup",
                                                !.unread = socks[fd].rx]
              /\ sessions' = sessions
              /\ minted' = minted]_vars

\* C18 witness: a connection with a partly sent response and a whole unread
\* request was dropped for a hang-up
C18_Witness ==
    \E fd \in DOMAIN ghost :
        /\ ghost[fd].dropped = "hangup"
        /\ ghost[fd].queued = 1
        /\ ghost[fd].sent # <<>>
        /\ ghost[fd].sent # ghost[fd].resp_bytes
        /\ ghost[fd].unread = HeaderBlock(<<L_GetHello>>)

\* C18 second case: a whole request was received, the peer shut its side
\* down, and the connection was dropped without an answer
C18_UnreadRequest ==
    \E fd \in DOMAIN ghost :
        /\ ghost[fd].dropped = "hangup"
        /\ ghost[fd].queued = 0
        /\ ghost[fd].handled = 0
        /\ ghost[fd].unread = HeaderBlock(<<L_PostUp, F_CL0>>)

\* C19 as stated: a failed readiness registration (epoll_add for a handle just
\* accepted, epoll_mod for a connection with a queued response) drops that
\* connection only: no connection stays in the table and no handle stays open
\* without a registration, and the call goes on to the remaining ready
\* descriptors and the sweeps, so it ends only when no ready descriptor is
\* left.
C19_RegistrationFailureIsLocal ==
    [][/\ DOMAIN conns' \subseteq DOMAIN interest'
       /\ DOMAIN socks' \subseteq DOMAIN interest'
       /\ (pc = "dispatch" /\ pc' = "wait") => DOMAIN ready = {}]_vars

\* ------------------------------------------------------------------------
\* Properties of the idle sweep (checked under SpecIdle)
\* ------------------------------------------------------------------------

\* The connections of the table that were idle for more than the timeout
IdleTooLong == {fd \in DOMAIN conns : now - conns[fd].last_activity > IDLE_TIMEOUT_SECS}

\* C20: a call of handle_connections that returns normally ends, after every
\* ready descriptor was processed (also when none was ready), with the idle
\* sweep: it drops exactly the connections whose last activity lies more than
\* the idle timeout back, whatever their state, and keeps every other
\* connection as it is.
C20_IdleSweep ==
    [][(pc = "dispatch" /\ pc' = "wait" /\ DOMAIN ready = {}) =>
          /\ DOMAIN conns' = DOMAIN conns \ IdleTooLong
          /\ \A fd \in DOMAIN conns' : conns'[fd] = conns[fd]
          /\ DOMAIN socks' = DOMAIN socks \ IdleTooLong
          /\ DOMAIN interest' = DOMAIN interest \ IdleTooLong
          /\ \A fd \in IdleTooLong : ghost'[fd].dropped = "idle"]_vars

\* C20 witness: the sweep dropped a connection that was in state Responding
\* with a part of its response sent
C20_Witness ==
    /\ pc = "wait"
    /\ \E fd \in DOMAIN ghost :
          /\ ghost[fd].dropped = "idle"
          /\ ghost[fd].queued = 1
          /\ ghost[fd].sent # <<>>
          /\ fd \notin DOMAIN conns

\* C20 second case: the sweep dropped a connection that was reading a body
C20_DroppedReadingBody ==
    /\ pc = "wait"
    /\ \E fd \in DOMAIN ghost :
          /\ ghost[fd].dropped = "idle"
          /\ ghost[fd].queued = 0
          /\ ghost[fd].script.kind = "ok_post"

\* C20 third case: the sweep is about to run with no descriptor left and a
\* connection idle for exactly the timeout
C20_AtTimeout ==
    /\ pc = "dispatch"
    /\ DOMAIN ready = {}
    /\ \E fd \in DOMAIN conns : now - conns[fd].last_activity = IDLE_TIMEOUT_SECS

\* ------------------------------------------------------------------------
\* Properties of the session sweep (checked under SpecSessions)
\* ------------------------------------------------------------------------

\* The sessions last seen more than the lifetime ago
ExpiredSessions == {s \in DOMAIN sessions : now - sessions[s].last_seen > SESSION_TTL_SECS}

\* The step removed exactly the expired sessions and left the others as they
\* were
SessionsSwept ==
    /\ DOMAIN sessions' = DOMAIN sessions \ ExpiredSessions
    /\ \A s \in DOMAIN sessions' : sessions'[s] = sessions[s]
    /\ \A s \in DOMAIN sessions' : now - sessions'[s].last_seen <= SESSION_TTL_SECS

C22_OtherConnectionsUntouched ==
    [][\A fd \in DOMAIN ready :
          ClientEventOf(fd) =>
              /\ \A other \in DOMAIN conns \ {fd} :
                    /\ other \in DOMAIN conns'
                    /\ conns'[other] = conns[other]
                    /\ other \in DOMAIN interest <=> other \in DOMAIN interest'
                    /\ other \in DOMAIN interest => interest'[other] = interest[other]
                    /\ other \in DOMAIN socks'
                    /\ socks'[other] = socks[other]
                    /\ ghost'[other] = ghost[other]
              /\ DOMAIN conns' \subseteq DOMAIN conns
              /\ sessions' # sessions =>
                    /\ fd \in DOMAIN ghost'
                    /\ ghost'[fd].dispatched
                    /\ ghost'[fd].handled = ghost[fd].handled + 1]_vars

\* C22 witness: two connections are in the table, both with a response
\* queued, and a part of the response of one of them only was sent
C22_Witness ==
    \E fd \in DOMAIN conns : \E other \in DOMAIN conns \ {fd} :
        /\ pc = "dispatch"
        /\ fd \notin DOMAIN ready
        /\ conns[fd].state = StResponding
        /\ conns[other].state = StResponding
        /\ ghost[fd].sent # <<>>
        /\ ghost[other].sent = <<>>
        /\ conns[other].out_buf = ghost[other].resp_bytes
        /\ conns[fd].out_buf # conns[other].out_buf

\* ------------------------------------------------------------------------
\* Properties of the chunk decoder (checked under SpecConn)
\* ------------------------------------------------------------------------

ChunkedKinds ==
    {"chunked_std", "chunked_extra", "chunked_trailer", "chunk_badhex", "chunk_nocrlf"}

\* Among the first n bytes of the input, after the header block, there is a
\* chunk-size line 0 followed by an empty line
ZeroChunkSeen(n) ==
    \E i \in input.hlen..(n - 5) :
        /\ Slice(input.bytes, i, i + 5) = T_0 \o CRLF \o CRLF
        /\ i = input.hlen \/ Slice(input.bytes, i - 2, i) = CRLF

\* C23: with chunked framing read_outcome is never Ready before the buffered
\* bytes after the header block hold a zero-size chunk followed by an empty
\* line: until then every call is Pending or Error; and a Ready outcome
\* carries the chunk payloads joined in order, each as long as its size line
\* declares.
C23_ChunkedReadyOnlyAfterZeroChunk ==
    (input.kind \in ChunkedKinds /\ fed > 0) =>
        /\ Len(conn.in_buf) = fed
        /\ ~ZeroChunkSeen(fed) => last.kind \in {"Pending", "Error"}
        /\ last.kind = "Ready" =>
              /\ ZeroChunkSeen(fed)
              /\ last.body_bytes = input.body
              /\ last.header_bytes = Slice(input.bytes, 0, input.hlen)

\* C23 witness: a body of two chunks was reported Ready with both payloads
C23_Witness ==
    /\ input.kind = "chunked_extra"
    /\ input.bytes = HeaderBlock(<<L_PostUp, F_TE>>)
                         \o ChunkLines(<<B_he, B_llo>>) \o CRLF \o CRLF
    /\ last.kind = "Ready"
    /\ last.body_bytes = B_hello
    /\ ZeroChunkSeen(fed)

\* C24 as stated: after the zero-size chunk the decoder skips trailer lines
\* and completes at the first empty line: a body ending in 0 CRLF, a trailer
\* line, CRLF CRLF is Pending until the last empty line has arrived and then
\* Ready with the body, never Error.
C24_TrailersSkipped ==
    input.kind = "chunked_trailer" =>
        /\ last.kind # "Error"
        /\ fed < Len(input.bytes) => last.kind = "Pending"
        /\ fed = Len(input.bytes) =>
              /\ last.kind = "Ready"
              /\ last.body_bytes = input.body

\* ------------------------------------------------------------------------
\* Request assembly with lengths near the largest usize
\* ------------------------------------------------------------------------

\* "Content-Length: n"
ContentLengthLine(n) == H_ContentLength \o <<":", " ">> \o ToDec(n)

\* How many bytes precede the body of a request declaring a length near UsizeMax
WordHeadLen == Len(HeaderBlock(<<L_PostUp, ContentLengthLine(UsizeMax)>>))

\* How many bytes precede the payload of a chunk whose size is near UsizeMax
WordChunkLead == Len(ToHex(UsizeMax) \o CRLF)

\* Requests declaring a Content-Length n, each carrying five body bytes: the
\* largest lengths, the lengths around the largest one for which
\* header_end + n is still a usize, one length above UsizeMax, and 5
WordContentLengthInputs ==
    { Input(IF n <= UsizeMax THEN "cl_word" ELSE "cl_toolarge",
            HeaderBlock(<<L_PostUp, ContentLengthLine(n)>>), B_hello, B_hello, n)
      : n \in {5, UsizeMax + 1}
              \cup {UsizeMax - k : k \in {0, 1, WordHeadLen - 1, WordHeadLen,
                                          WordHeadLen + 1}} }

\* Chunked requests whose first chunk declares size n and is followed by five
\* bytes and a zero-size chunk: the largest sizes, the sizes around the largest
\* one for which pos + n + 2 is still a usize, one size above UsizeMax, and 5
WordChunkedInputs ==
    { Input(IF n <= UsizeMax THEN "chunk_word" ELSE "chunk_toolarge",
            HeaderBlock(<<L_PostUp, F_TE>>),
            ToHex(n) \o CRLF \o B_hello \o CRLF \o T_0 \o CRLF \o CRLF \o CRLF,
            B_hello, n)
      : n \in {5, UsizeMax + 1}
              \cup {UsizeMax - k : k \in {0, 1, 2, WordChunkLead + 1,
                                          WordChunkLead + 2, WordChunkLead + 3}} }

WordInputs == WordContentLengthInputs \cup WordChunkedInputs

\* One fresh connection, one of these requests, and either build profile
WordInit ==
    /\ NoCall
    /\ input \in WordInputs
    /\ conn = NewConn(8080, 0)
    /\ fed = 0
    /\ last = OutPending
    /\ \E checks \in BOOLEAN :
          ReactorStart([NoPeers EXCEPT !.overflow_checks = checks])

SpecWord == WordInit /\ [][ConnNext]_vars

\* C25: for every Content-Length the framing parser accepts, up to the largest
\* usize, read_body_content_length never panics and returns Pending while
\* fewer than header_end + content_length bytes are buffered
C25_ContentLengthUpToWordMax ==
    input.kind = "cl_word" =>
        /\ last.kind # "Panic"
        /\ fed < input.hlen + input.declared => last.kind = "Pending"

\* C26: for every chunk size the decoder accepts, up to the largest usize,
\* decode_chunked_body never panics and reports an incomplete body while fewer
\* than chunk size + 2 bytes follow the size line
C26_ChunkSizeUpToWordMax ==
    input.kind = "chunk_word" =>
        /\ last.kind # "Panic"
        /\ fed < input.hlen + Len(ToHex(input.declared) \o CRLF)
                     + input.declared + 2
              => last.kind = "Pending"

\* ------------------------------------------------------------------------
\* Properties of the connection table at the boundaries of readiness cycles
\* (checked under Spec)
\* ------------------------------------------------------------------------

\* C27 as stated: a connection leaves the table only in a step that also
\* deregisters and closes its handle; whenever a call of handle_connections has
\* ended, the handles of the table, the registered client handles and the open
\* client handles are the same set; and every client event that is processed
\* belongs to a handle that is open.
C27_TableEqualsRegisteredOpenHandles ==
    [][/\ \A fd \in DOMAIN conns \ DOMAIN conns' :
             fd \notin DOMAIN interest' /\ fd \notin DOMAIN socks'
       /\ pc' = "wait" => /\ DOMAIN conns' = DOMAIN interest'
                          /\ DOMAIN conns' = DOMAIN socks'
       /\ \A fd \in DOMAIN ready \ DOMAIN ListenFdToPort :
             ClientEventOf(fd) => fd \in DOMAIN socks]_vars

\* C28: whenever a call of handle_connections has ended, every connection of
\* the table has a non-empty out_buf if and only if its state is Responding
C28_OutBufIffResponding ==
    pc = "wait" =>
        \A fd \in DOMAIN conns :
            conns[fd].out_buf # <<>> <=> conns[fd].state = StResponding

\* C28 witness: a call has ended with a connection in state Responding whose
\* response was sent in part, the rest still being in out_buf
C28_Witness ==
    /\ pc = "wait"
    /\ \E fd \in DOMAIN conns :
          /\ conns[fd].state = StResponding
          /\ conns[fd].out_buf # <<>>
          /\ ghost[fd].sent # <<>>
          /\ ghost[fd].sent \o conns[fd].out_buf = ghost[fd].resp_bytes

\* C28 witness of the other side: a call has ended with a connection that is
\* still reading its request and has received a part of it
C28_StillReading ==
    /\ pc = "wait"
    /\ \E fd \in DOMAIN conns :
          /\ conns[fd].state # StResponding
          /\ conns[fd].in_buf # <<>>
          /\ conns[fd].out_buf = <<>>

\* ------------------------------------------------------------------------
\* The session store across one request: a router holding the routes of
\* main and some sessions reads one request in one piece
\* ------------------------------------------------------------------------

\* "DELETE /hello HTTP/1.1"
L_DeleteHello ==
    <<"D","E","L","E","T","E"," ","/","h","e","l","l","o"," ","H","T","T","P",
      "/","1",".","1">>

\* "GET /up HTTP/1.1"
L_GetUp ==
    <<"G","E","T"," ","/","u","p"," ","H","T","T","P","/","1",".","1">>

\* The requests: the request line, the framing lines and the bytes after the
\* header block
StoreRequests ==
    { [line |-> L_GetHello, lines |-> <<>>, after |-> <<>>],
      [line |-> L_Get, lines |-> <<>>, after |-> <<>>],
      [line |-> L_PostUp, lines |-> <<F_CL5>>, after |-> B_hello],
      [line |-> L_DeleteHello, lines |-> <<>>, after |-> <<>>],
      [line |-> L_GetUp, lines |-> <<>>, after |-> <<>>],
      [line |-> L_GetHello20, lines |-> <<>>, after |-> <<>>],
      [line |-> L_GetHelloShort, lines |-> <<>>, after |-> <<>>],
      [line |-> L_PostUp, lines |-> <<F_CL5, F_TE>>, after |-> B_hello],
      [line |-> L_PostUp, lines |-> <<F_CL0>>, after |-> <<>>] }

\* The sid cookies a request may carry: none, one of the first two identifiers
\* the server generates, and a made-up value
StoreCookies ==
    {<<>>, <<GenerateSessionId(1)>>, <<GenerateSessionId(2)>>, <<SID_forged>>}

\* Each request arrives on a port with routes or on 8082, a port without any
StoreCalls ==
    { [line |-> r.line, cookie |-> cookie, local_port |-> port,
       bytes |-> HeaderBlock(<<r.line>>
                             \o (IF cookie = <<>> THEN <<>>
                                 ELSE <<F_CookieSid \o cookie[1]>>)
                             \o r.lines) \o r.after] :
        r \in StoreRequests, cookie \in StoreCookies,
        port \in Ports \cup {8082} }

\* A store holding the sessions ids, all created at time 0 and seen once
StoreOf(ids) ==
    [s \in ids |-> [id |-> s, created_at |-> 0, last_seen |-> 0, visits |-> 1]]

\* The stores before the request: empty; the first session; the second session
\* after the first one expired
PriorStores ==
    { [sessions |-> StoreOf({}), minted |-> 0],
      [sessions |-> StoreOf({GenerateSessionId(1)}), minted |-> 1],
      [sessions |-> StoreOf({GenerateSessionId(2)}), minted |-> 2] }

StoreInit ==
    /\ call \in StoreCalls
    /\ ret = <<>>
    /\ ConnFrozen
    /\ cfg = NoPeers
    /\ routes = StartupRoutes
    /\ conns = EmptyMap
    /\ \E prior \in PriorStores :
          /\ sessions = prior.sessions
          /\ minted = prior.minted
          \* a peer knows the identifiers the server issued, and cannot guess
          \* one it will generate
          /\ call.cookie \in {<<>>, <<SID_forged>>}
                \cup {<<GenerateSessionId(n)>> : n \in 1..prior.minted}
    /\ now = IDLE_TIMEOUT_SECS
    /\ ticks = 0
    /\ socks = EmptyMap
    /\ backlog = [l \in DOMAIN ListenFdToPort |-> 0]
    /\ connects = 0
    /\ interest = EmptyMap
    /\ pc = "wait"
    /\ ready = EmptyMap
    /\ ghost = EmptyMap

SpecStore == StoreInit /\ [][ReadAndParse]_vars

\* C29: a request that reaches no handler (answered 400 or 505 for a framing
\* or parse error, 404 for a port without routes or a path without route, 405
\* for a path whose routes all have another method) leaves the session store
\* as it was: no session is created and the session its sid cookie names keeps
\* its last_seen and visits.
C29_NotDispatchedKeepsStore ==
    [][(ret' # <<>> /\ ~ret'[1].answer.dispatched) =>
          /\ StatusCodeOf(ret'[1].answer.resp.status) \in {400, 505, 404, 405}
          /\ sessions' = sessions
          /\ minted' = minted]_vars

\* C29 witness: a request answered 405 that carried the sid of a session of
\* the store, last seen before the request
C29_Witness ==
    /\ ret # <<>>
    /\ ~ret[1].answer.dispatched
    /\ ret[1].answer.resp.status = "MethodNotAllowed"
    /\ call.cookie # <<>>
    /\ call.cookie[1] \in DOMAIN sessions
    /\ sessions[call.cookie[1]].last_seen < now
    /\ sessions[call.cookie[1]].visits = 1

\* The identifiers the server generated so far
Generated == {GenerateSessionId(n) : n \in 1..minted}

\* C30: every key of the session store is an identifier the server generated;
\* a dispatched request whose sid cookie names no session of the store gets a
\* fresh identifier: the store grows by exactly that one record and the
\* cookie's value does not become a key.
C30_KeysAreServerGenerated ==
    [][ret' # <<>> =>
          /\ \A s \in DOMAIN sessions' :
                s \in {GenerateSessionId(n) : n \in 1..minted'}
          /\ (/\ ret'[1].answer.dispatched
              /\ call.cookie # <<>>
              /\ call.cookie[1] \notin DOMAIN sessions)
                => /\ DOMAIN sessions' =
                         DOMAIN sessions \cup {GenerateSessionId(minted + 1)}
                   /\ Cardinality(DOMAIN sessions') =
                         Cardinality(DOMAIN sessions) + 1
                   /\ call.cookie[1] \notin DOMAIN sessions'
                   /\ \A s \in DOMAIN sessions : sessions'[s] = sessions[s]
                   /\ ret'[1].answer.is_new_session
                   /\ ret'[1].answer.session_id = <<GenerateSessionId(minted + 1)>>]_vars

\* C30 witness: a dispatched request carried a made-up sid; the store, which
\* held one session before, holds two generated keys and not the made-up one
C30_Witness ==
    /\ ret # <<>>
    /\ ret[1].answer.dispatched
    /\ call.cookie = <<SID_forged>>
    /\ Cardinality(DOMAIN sessions) = 2
    /\ DOMAIN sessions \subseteq Generated
    /\ SID_forged \notin DOMAIN sessions

\* C30 witness of an identifier the server generated earlier: the request
\* carried the sid of a session that is gone from the store
C30_ExpiredSid ==
    /\ ret # <<>>
    /\ ret[1].answer.dispatched
    /\ call.cookie = <<GenerateSessionId(1)>>
    /\ DOMAIN sessions = {GenerateSessionId(2), GenerateSessionId(3)}

\* ------------------------------------------------------------------------
\* A queued response and the idle timeout (checked under Spec)
\* ------------------------------------------------------------------------

\* C31 as stated: a connection with a queued response is removed although the
\* peer never reads it, because the bytes the peer sends meanwhile are ignored
\* and do not postpone the idle-timeout drop: an event that only reads such
\* bytes changes nothing of the connection but its input buffer, and after
\* the sweeps of a call no connection is left whose response was queued, or
\* last accepted in part, more than the idle timeout ago.
C31_IgnoredBytesDoNotPostponeDrop ==
    [][/\ \A fd \in DOMAIN conns \cap DOMAIN conns' :
             (/\ ClientEventOf(fd)
              /\ conns[fd].state = StResponding
              /\ ghost'[fd].sent = ghost[fd].sent)
                => /\ conns'[fd].state = StResponding
                   /\ conns'[fd].out_buf = conns[fd].out_buf
                   /\ conns'[fd].last_activity = conns[fd].last_activity
       /\ (pc = "dispatch" /\ pc' = "wait" /\ DOMAIN ready = {}) =>
             \A fd \in DOMAIN conns' :
                conns'[fd].state = StResponding
                   => now - ghost'[fd].progress <= IDLE_TIMEOUT_SECS]_vars

\* C31, the state the claim excludes: a call of handle_connections has run its
\* sweeps and left a connection whose response was queued more than the idle
\* timeout ago, of which the peer accepted nothing, and whose peer sent bytes
\* after the response was queued
C31_StillThereAfterTimeout ==
    /\ pc = "wait"
    /\ \E fd \in DOMAIN conns :
          /\ conns[fd].state = StResponding
          /\ ghost[fd].sent = <<>>
          /\ ghost[fd].late_reads > 0
          /\ now - ghost[fd].progress > IDLE_TIMEOUT_SECS
          /\ now - conns[fd].last_activity <= IDLE_TIMEOUT_SECS

\* ------------------------------------------------------------------------
\* The send loop of handle_client_writable alone, one iteration at a time
\* ------------------------------------------------------------------------

\* What send_nonblocking may return by its type: Ok(None), Err, or Ok(Some(n))
\* with n from 0 to the length of the buffer
SendResults == SendAnswers \cup {"Zero"}

\* The responses whose bytes wait in out_buf when the loop starts
DrainResponses ==
    { ToBytes(ErrorResponse(V_Http11, status)) :
        status \in {"NotFound", "BadRequest", "MethodNotAllowed",
                    "VersionNotSupported"} }

\* What is left of them after earlier calls sent a part
DrainBuffers ==
    { SliceFrom(bytes, k) : bytes \in DrainResponses, k \in {0, 1, PartialSend} }

\* A connection in state Responding with a non-empty out_buf, and the loop
\* before its first test.  call tells where the loop stands: "test" before
\* `while !c.out_buf.is_empty()`, "send" before send_nonblocking
DrainInit ==
    /\ call \in { [buffer |-> b, at |-> "test"] : b \in DrainBuffers }
    /\ ret = <<>>
    /\ input = CHOOSE i \in Inputs : i.kind = "none"
    /\ conn = [NewConn(8080, 0) EXCEPT !.state = StResponding,
                                       !.out_buf = call.buffer]
    /\ fed = 0
    /\ last = OutPending
    /\ ReactorStart(NoPeers)

\* The loop condition: the loop ends when out_buf is empty
DrainTest ==
    /\ ret = <<>>
    /\ call.at = "test"
    /\ IF conn.out_buf = <<>>
       THEN ret' = <<"drained">> /\ call' = call
       ELSE ret' = ret /\ call' = [call EXCEPT !.at = "send"]
    /\ UNCHANGED <<connVars, reactorVars>>

\* One iteration after send_nonblocking returned s: the loop is left on
\* would-block and on an error, and goes back to its condition otherwise
DrainSent(s) ==
    /\ conn' = s.conn
    /\ IF s.end \in {"would_block", "send_error"}
       THEN ret' = <<s.end>> /\ call' = call
       ELSE ret' = ret /\ call' = [call EXCEPT !.at = "test"]

\* The body of the loop: one call of send_nonblocking
DrainSend ==
    /\ ret = <<>>
    /\ call.at = "send"
    /\ \E answer \in SendResults : DrainSent(SendLoop(conn, <<answer>>, now, <<>>, 0))
    /\ UNCHANGED <<input, fed, last, reactorVars>>

DrainNext == DrainTest \/ DrainSend

SpecDrain == DrainInit /\ [][DrainNext]_vars

\* The loop is straight-line code of one thread: whenever it can take its next
\* step it does
FairSpecDrain == SpecDrain /\ WF_vars(DrainTest) /\ WF_vars(DrainSend)

\* C32 as stated: the send loop of handle_client_writable ends for every
\* sequence of results of send_nonblocking, a byte count of 0 for a non-empty
\* buffer included
C32_SendLoopTerminates == <>(ret # <<>>)

====
